---- MODULE Spec2Model ----
(***************************************************************************)
(* A model of the path geometry engine of @neptune3d/icon-font: the        *)
(* IconPath command list, its builder appends, its in-place transforms,    *)
(* the bounds / center / fit arithmetic, the canonicalizer, the winding    *)
(* normalizer and the two font-space projectors; and of the buffer an      *)
(* IconFont caches for its exports.                                        *)
(*                                                                         *)
(* Numbers.  The code computes with IEEE doubles.  The model computes with *)
(* exact rationals extended by the three special doubles +Infinity,        *)
(* -Infinity and NaN, which the code produces on empty bounds and on       *)
(* division by zero.  A number is a pair <<n, d>>: d > 0 is the rational   *)
(* n/d in lowest terms, <<1,0>> is +Infinity, <<-1,0>> is -Infinity and    *)
(* <<0,0>> is NaN.  Rounding and the sign of zero are not modelled.        *)
(***************************************************************************)
EXTENDS Integers, Sequences, FiniteSets, TLC

VARIABLES heap, paths, last, font

vars == <<heap, paths, last, font>>

-----------------------------------------------------------------------------
(* Extended rational arithmetic (the JavaScript number operations).        *)

Abs(i) == IF i < 0 THEN -i ELSE i

Sign(i) == IF i < 0 THEN -1 ELSE IF i > 0 THEN 1 ELSE 0

RECURSIVE GCD(_, _)
GCD(a, b) == IF b = 0 THEN a ELSE GCD(b, a % b)

Norm(n, d) ==
  IF d = 0 THEN <<Sign(n), 0>>
  ELSE LET g == GCD(Abs(n), Abs(d))
           s == Sign(d)
       IN  <<(s * n) \div g, (s * d) \div g>>

R(i) == <<i, 1>>

Frac(n, d) == Norm(n, d)

PosInf == <<1, 0>>

NegInf == <<-1, 0>>

NaN == <<0, 0>>

IsNaN(a) == a = NaN

IsFinite(a) == a[2] # 0

Neg(a) == <<-a[1], a[2]>>

Add(a, b) ==
  IF IsFinite(a) /\ IsFinite(b) THEN Norm(a[1] * b[2] + b[1] * a[2], a[2] * b[2])
  ELSE IF IsNaN(a) \/ IsNaN(b) THEN NaN
  ELSE IF IsFinite(a) THEN b
  ELSE IF IsFinite(b) THEN a
  ELSE IF a = b THEN a ELSE NaN

Sub(a, b) == Add(a, Neg(b))

Mul(a, b) == Norm(a[1] * b[1], a[2] * b[2])

Inv(a) == Norm(a[2], a[1])

Div(a, b) == Mul(a, Inv(b))

Lt(a, b) ==
  IF IsNaN(a) \/ IsNaN(b) THEN FALSE
  ELSE IF ~IsFinite(a) /\ ~IsFinite(b) THEN a[1] < b[1]
  ELSE a[1] * b[2] < b[1] * a[2]

Gt(a, b) == Lt(b, a)

\* Math.min: NaN if either argument is NaN.
MathMin(a, b) == IF IsNaN(a) \/ IsNaN(b) THEN NaN ELSE IF Lt(b, a) THEN b ELSE a

Zero == R(0)

Two == R(2)

-----------------------------------------------------------------------------
(* The command vocabulary (types.ts): records tagged by "type".            *)

MoveC(x, y) == [type |-> "M", x |-> x, y |-> y]

LineC(x, y) == [type |-> "L", x |-> x, y |-> y]

HC(x) == [type |-> "H", x |-> x]

VC(y) == [type |-> "V", y |-> y]

QuadC(x1, y1, x, y) == [type |-> "Q", x1 |-> x1, y1 |-> y1, x |-> x, y |-> y]

CubicC(x1, y1, x2, y2, x, y) ==
  [type |-> "C", x1 |-> x1, y1 |-> y1, x2 |-> x2, y2 |-> y2, x |-> x, y |-> y]

SmoothQuadC(x, y) == [type |-> "T", x |-> x, y |-> y]

SmoothCubicC(x2, y2, x, y) == [type |-> "S", x2 |-> x2, y2 |-> y2, x |-> x, y |-> y]

CloseC == [type |-> "Z"]

Pt(x, y) == [x |-> x, y |-> y]

\* Integer-coordinate shorthands used to write inputs.
M(x, y) == MoveC(R(x), R(y))

L(x, y) == LineC(R(x), R(y))

H(x) == HC(R(x))

V(y) == VC(R(y))

Q(x1, y1, x, y) == QuadC(R(x1), R(y1), R(x), R(y))

C(x1, y1, x2, y2, x, y) == CubicC(R(x1), R(y1), R(x2), R(y2), R(x), R(y))

T(x, y) == SmoothQuadC(R(x), R(y))

S(x2, y2, x, y) == SmoothCubicC(R(x2), R(y2), R(x), R(y))

Z == CloseC

-----------------------------------------------------------------------------
(* Geometry Transform Engine.                                              *)

\* The numbers a command carries.
numsOf(cmd) == {cmd[f] : f \in DOMAIN cmd \ {"type"}}

\* The argument pairs _mapCoords can hand to fn for these commands: any two of
\* their numbers, or 0 for the axis an H or V command does not have.
fnArgs(cmds) ==
  LET nums == {Zero} \cup UNION {numsOf(cmds[i]) : i \in 1..Len(cmds)}
  IN  nums \X nums

\* _mapCoords with every drawing command rewritten as the line to its
\* mapped endpoint.
mapCoordsAsLine(cmd, fn) ==
  IF cmd.type = "Z" THEN CloseC
  ELSE LET p == fn[<<IF "x" \in DOMAIN cmd THEN cmd.x ELSE Zero,
                     IF "y" \in DOMAIN cmd THEN cmd.y ELSE Zero>>]
       IN  LineC(p.x, p.y)

\* _mapCoords: every command rewritten through fn; H and V pass 0 for the
\* other axis and keep only their own.  fn is the callback, as a function of
\* the pair <<x, y>>.
mapCoordsRewrite(cmd, fn) ==
  CASE cmd.type \in {"M", "L", "T"} ->
         LET p == fn[<<cmd.x, cmd.y>>] IN [type |-> cmd.type, x |-> p.x, y |-> p.y]
    [] cmd.type = "H" -> LET p == fn[<<cmd.x, Zero>>] IN HC(p.x)
    [] cmd.type = "V" -> LET p == fn[<<Zero, cmd.y>>] IN VC(p.y)
    [] cmd.type = "Q" ->
         LET c == fn[<<cmd.x1, cmd.y1>>]
             p == fn[<<cmd.x, cmd.y>>]
         IN  QuadC(c.x, c.y, p.x, p.y)
    [] cmd.type = "C" ->
         LET c1 == fn[<<cmd.x1, cmd.y1>>]
             c2 == fn[<<cmd.x2, cmd.y2>>]
             p == fn[<<cmd.x, cmd.y>>]
         IN  CubicC(c1.x, c1.y, c2.x, c2.y, p.x, p.y)
    [] cmd.type = "S" ->
         LET c2 == fn[<<cmd.x2, cmd.y2>>]
             p == fn[<<cmd.x, cmd.y>>]
         IN  SmoothCubicC(c2.x, c2.y, p.x, p.y)
    [] cmd.type = "Z" -> CloseC

mapCoords(cmds, fn) ==
  [i \in 1..Len(cmds) |-> mapCoordsRewrite(cmds[i], fn)]

\* scale with the pivot left out: about the origin.
scaleAboutOrigin(cmds, sx, sy, cx, cy) ==
  mapCoords(cmds, [p \in fnArgs(cmds) |-> Pt(Mul(p[1], sx), Mul(p[2], sy))])

scale(cmds, sx, sy, cx, cy) ==
  mapCoords(cmds, [p \in fnArgs(cmds) |->
    Pt(Add(Mul(Sub(p[1], cx), sx), cx), Add(Mul(Sub(p[2], cy), sy), cy))])

translate(cmds, dx, dy) ==
  mapCoords(cmds, [p \in fnArgs(cmds) |-> Pt(Add(p[1], dx), Add(p[2], dy))])

flipX(cmds, width) ==
  mapCoords(cmds, [p \in fnArgs(cmds) |-> Pt(Sub(width, p[1]), p[2])])

flipY(cmds, height) ==
  mapCoords(cmds, [p \in fnArgs(cmds) |-> Pt(p[1], Sub(height, p[2]))])

-----------------------------------------------------------------------------
(* Bounds Calculator.                                                      *)

\* The x-like and y-like fields a command carries, in the order the code
\* pushes them: x, x1, x2 and y, y1, y2.
\* xsOf with only the endpoint, the control points left out.
xsOfEndpoint(cmd) == IF "x" \in DOMAIN cmd THEN <<cmd.x>> ELSE <<>>

xsOf(cmd) ==
  (IF "x" \in DOMAIN cmd THEN <<cmd.x>> ELSE <<>>) \o
  (IF "x1" \in DOMAIN cmd THEN <<cmd.x1>> ELSE <<>>) \o
  (IF "x2" \in DOMAIN cmd THEN <<cmd.x2>> ELSE <<>>)

ysOf(cmd) ==
  (IF "y" \in DOMAIN cmd THEN <<cmd.y>> ELSE <<>>) \o
  (IF "y1" \in DOMAIN cmd THEN <<cmd.y1>> ELSE <<>>) \o
  (IF "y2" \in DOMAIN cmd THEN <<cmd.y2>> ELSE <<>>)

RECURSIVE allXs(_)
allXs(cmds) == IF cmds = <<>> THEN <<>> ELSE xsOf(Head(cmds)) \o allXs(Tail(cmds))

RECURSIVE allYs(_)
allYs(cmds) == IF cmds = <<>> THEN <<>> ELSE ysOf(Head(cmds)) \o allYs(Tail(cmds))

\* if (v < min) min = v, over the values in order, starting from +Infinity.
RECURSIVE runningMin(_, _)
runningMin(vals, acc) ==
  IF vals = <<>> THEN acc
  ELSE runningMin(Tail(vals), IF Lt(Head(vals), acc) THEN Head(vals) ELSE acc)

\* if (v > max) max = v, starting from -Infinity.
RECURSIVE runningMax(_, _)
runningMax(vals, acc) ==
  IF vals = <<>> THEN acc
  ELSE runningMax(Tail(vals), IF Gt(Head(vals), acc) THEN Head(vals) ELSE acc)

getCommandBounds(cmds) ==
  [minX |-> runningMin(allXs(cmds), PosInf),
   minY |-> runningMin(allYs(cmds), PosInf),
   maxX |-> runningMax(allXs(cmds), NegInf),
   maxY |-> runningMax(allYs(cmds), NegInf)]

getCanvasBounds(w, h) == [minX |-> Zero, minY |-> Zero, maxX |-> w, maxY |-> h]

\* center with the halving of the free space left out.
centerNoHalf(cmds, minX, minY, maxX, maxY) ==
  LET bounds == getCommandBounds(cmds)
      dx == Sub(Add(minX, Sub(Sub(maxX, minX), Sub(bounds.maxX, bounds.minX))),
                bounds.minX)
      dy == Sub(Add(minY, Sub(Sub(maxY, minY), Sub(bounds.maxY, bounds.minY))),
                bounds.minY)
  IN  translate(cmds, dx, dy)

center(cmds, minX, minY, maxX, maxY) ==
  LET bounds == getCommandBounds(cmds)
      shapeWidth == Sub(bounds.maxX, bounds.minX)
      shapeHeight == Sub(bounds.maxY, bounds.minY)
      targetWidth == Sub(maxX, minX)
      targetHeight == Sub(maxY, minY)
      dx == Sub(Add(minX, Div(Sub(targetWidth, shapeWidth), Two)), bounds.minX)
      dy == Sub(Add(minY, Div(Sub(targetHeight, shapeHeight), Two)), bounds.minY)
  IN  translate(cmds, dx, dy)

\* fit with the centering step left out.
fitNoCenter(cmds, w, h, preserveAspect) ==
  LET cmdBounds == getCommandBounds(cmds)
      shapeWidth == Sub(cmdBounds.maxX, cmdBounds.minX)
      shapeHeight == Sub(cmdBounds.maxY, cmdBounds.minY)
      sx0 == Div(w, shapeWidth)
      sy0 == Div(h, shapeHeight)
      s == MathMin(sx0, sy0)
  IN  IF shapeWidth = Zero \/ shapeHeight = Zero THEN cmds
      ELSE scale(cmds, IF preserveAspect THEN s ELSE sx0,
                 IF preserveAspect THEN s ELSE sy0, Div(w, Two), Div(h, Two))

fit(cmds, w, h, preserveAspect) ==
  LET centered == center(cmds, Zero, Zero, w, h)
      cmdBounds == getCommandBounds(centered)
      canvasBounds == getCanvasBounds(w, h)
      shapeWidth == Sub(cmdBounds.maxX, cmdBounds.minX)
      shapeHeight == Sub(cmdBounds.maxY, cmdBounds.minY)
      canvasWidth == Sub(canvasBounds.maxX, canvasBounds.minX)
      canvasHeight == Sub(canvasBounds.maxY, canvasBounds.minY)
      sx0 == Div(canvasWidth, shapeWidth)
      sy0 == Div(canvasHeight, shapeHeight)
      s == MathMin(sx0, sy0)
      sx == IF preserveAspect THEN s ELSE sx0
      sy == IF preserveAspect THEN s ELSE sy0
  IN  IF shapeWidth = Zero \/ shapeHeight = Zero THEN centered
      ELSE scale(centered, sx, sy, Div(w, Two), Div(h, Two))

\* alignToFont with every mode aligning the top of the path.
alignToFontTop(cmds, h, ascender, descender, mode) ==
  LET fontYToDesign(yFont) ==
        Sub(h, Mul(Div(Sub(yFont, descender), Sub(ascender, descender)), h))
      pathTop == getCommandBounds(cmds).minY
      target == CASE mode = "ascender" -> fontYToDesign(ascender)
                  [] mode = "descender" -> fontYToDesign(descender)
                  [] mode = "baseline" -> fontYToDesign(Zero)
                  [] mode = "center" ->
                       fontYToDesign(Div(Add(ascender, descender), Two))
  IN  translate(cmds, Zero, Sub(target, pathTop))

alignToFont(cmds, h, ascender, descender, mode) ==
  LET designHeight == h
      fontYToDesign(yFont) ==
        Sub(designHeight,
            Mul(Div(Sub(yFont, descender), Sub(ascender, descender)), designHeight))
      ascenderDesign == fontYToDesign(ascender)
      descenderDesign == fontYToDesign(descender)
      baselineDesign == fontYToDesign(Zero)
      emMidDesign == fontYToDesign(Div(Add(ascender, descender), Two))
      b == getCommandBounds(cmds)
      pathTop == b.minY
      pathBottom == b.maxY
      pathMid == Div(Add(pathTop, pathBottom), Two)
      offsetY == CASE mode = "ascender" -> Sub(ascenderDesign, pathTop)
                   [] mode = "descender" -> Sub(descenderDesign, pathBottom)
                   [] mode = "baseline" -> Sub(baselineDesign, pathBottom)
                   [] mode = "center" -> Sub(emMidDesign, pathMid)
  IN  translate(cmds, Zero, offsetY)

-----------------------------------------------------------------------------
(* Canonicalizer.                                                          *)

\* "No previous control point" (null in the code).
Null == <<>>

\* The control point of a T or S taken as the current point, whatever came
\* before.
reflectNever(c, ctrl) == c

\* lastCtrl !== null ? 2 * c - lastCtrl : c, per coordinate.
reflect(c, ctrl) == IF ctrl # Null THEN Sub(Mul(Two, c), ctrl) ELSE c

\* One step of the loop of getOpenTypeCommands: st carries out, the current
\* point (cx, cy) and the last quadratic / cubic control points.
canonStep(st, c) ==
  CASE c.type = "M" ->
         [out |-> Append(st.out, MoveC(c.x, c.y)), cx |-> c.x, cy |-> c.y,
          qx |-> Null, qy |-> Null, kx |-> Null, ky |-> Null]
    [] c.type = "L" ->
         [out |-> Append(st.out, LineC(c.x, c.y)), cx |-> c.x, cy |-> c.y,
          qx |-> Null, qy |-> Null, kx |-> Null, ky |-> Null]
    [] c.type = "H" ->
         [out |-> Append(st.out, LineC(c.x, st.cy)), cx |-> c.x, cy |-> st.cy,
          qx |-> Null, qy |-> Null, kx |-> Null, ky |-> Null]
    [] c.type = "V" ->
         [out |-> Append(st.out, LineC(st.cx, c.y)), cx |-> st.cx, cy |-> c.y,
          qx |-> Null, qy |-> Null, kx |-> Null, ky |-> Null]
    [] c.type = "Q" ->
         [out |-> Append(st.out, QuadC(c.x1, c.y1, c.x, c.y)), cx |-> c.x, cy |-> c.y,
          qx |-> c.x1, qy |-> c.y1, kx |-> Null, ky |-> Null]
    [] c.type = "T" ->
         LET rx == reflect(st.cx, st.qx)
             ry == reflect(st.cy, st.qy)
         IN  [out |-> Append(st.out, QuadC(rx, ry, c.x, c.y)), cx |-> c.x, cy |-> c.y,
              qx |-> rx, qy |-> ry, kx |-> Null, ky |-> Null]
    [] c.type = "C" ->
         [out |-> Append(st.out, CubicC(c.x1, c.y1, c.x2, c.y2, c.x, c.y)),
          cx |-> c.x, cy |-> c.y,
          qx |-> Null, qy |-> Null, kx |-> c.x2, ky |-> c.y2]
    [] c.type = "S" ->
         LET rxC == reflect(st.cx, st.kx)
             ryC == reflect(st.cy, st.ky)
         IN  [out |-> Append(st.out, CubicC(rxC, ryC, c.x2, c.y2, c.x, c.y)),
              cx |-> c.x, cy |-> c.y,
              qx |-> Null, qy |-> Null, kx |-> c.x2, ky |-> c.y2]
    [] c.type = "Z" ->
         [out |-> Append(st.out, CloseC), cx |-> st.cx, cy |-> st.cy,
          qx |-> Null, qy |-> Null, kx |-> Null, ky |-> Null]

RECURSIVE canonLoop(_, _)
canonLoop(st, cmds) ==
  IF cmds = <<>> THEN st ELSE canonLoop(canonStep(st, Head(cmds)), Tail(cmds))

\* getOpenTypeCommands without any conversion.
getOpenTypeCommandsRaw(cmds) == cmds

getOpenTypeCommands(cmds) ==
  canonLoop([out |-> <<>>, cx |-> Zero, cy |-> Zero,
             qx |-> Null, qy |-> Null, kx |-> Null, ky |-> Null], cmds).out

-----------------------------------------------------------------------------
(* Winding Normalizer.                                                     *)

\* The loop step of splitSubpaths with only M starting a subpath: a Z does
\* not end the current one.
splitStepOnMove(st, c) ==
  IF c.type = "M" /\ Len(st.current) > 0
  THEN [parts |-> Append(st.parts, st.current), current |-> <<c>>]
  ELSE [st EXCEPT !.current = Append(@, c)]

\* One step of the loop of splitSubpaths: st = [parts, current].
splitStep(st, c) ==
  LET flushed == c.type = "M" /\ Len(st.current) > 0
                 /\ st.current[Len(st.current)].type # "Z"
      parts1 == IF flushed THEN Append(st.parts, st.current) ELSE st.parts
      current1 == Append(IF flushed THEN <<>> ELSE st.current, c)
  IN  IF c.type = "Z"
      THEN [parts |-> Append(parts1, current1), current |-> <<>>]
      ELSE [parts |-> parts1, current |-> current1]

RECURSIVE splitLoop(_, _)
splitLoop(st, cmds) ==
  IF cmds = <<>> THEN st ELSE splitLoop(splitStep(st, Head(cmds)), Tail(cmds))

splitSubpaths(cmds) ==
  LET st == splitLoop([parts |-> <<>>, current |-> <<>>], cmds)
  IN  IF Len(st.current) > 0 THEN Append(st.parts, st.current) ELSE st.parts

\* The points getSignedAreaFontSpace collects: the endpoint of every M, L, Q
\* and C with y flipped against the height; Z adds none.
RECURSIVE areaPoints(_, _)
areaPoints(sub, h) ==
  IF sub = <<>> THEN <<>>
  ELSE LET c == Head(sub)
       IN  (IF c.type \in {"M", "L", "Q", "C"}
            THEN <<Pt(c.x, Sub(h, c.y))>> ELSE <<>>) \o areaPoints(Tail(sub), h)

RECURSIVE shoelace(_, _)
shoelace(pts, i) ==
  IF i > Len(pts) THEN Zero
  ELSE LET a == pts[i]
           b == pts[(i % Len(pts)) + 1]
       IN  Add(Sub(Mul(a.x, b.y), Mul(b.x, a.y)), shoelace(pts, i + 1))

getSignedAreaFontSpace(sub, h) == Div(shoelace(areaPoints(sub, h), 1), Two)

\* The first pass of reverseSubpath: st = [endpoints, verts, cx, cy];
\* endpoints holds Null for a Z.
endpointStep(st, c) ==
  IF c.type = "Z"
  THEN [st EXCEPT !.endpoints = Append(@, Null)]
  ELSE LET nx == IF c.type = "V" THEN st.cx ELSE c.x
           ny == IF c.type = "H" THEN st.cy ELSE c.y
       IN  [endpoints |-> Append(st.endpoints, Pt(nx, ny)),
            verts |-> Append(st.verts, Pt(nx, ny)), cx |-> nx, cy |-> ny]

RECURSIVE endpointLoop(_, _)
endpointLoop(st, sub) ==
  IF sub = <<>> THEN st ELSE endpointLoop(endpointStep(st, Head(sub)), Tail(sub))

\* prevEndpoint(i), 1-based: the nearest non-null endpoint before i, else
\* the first vertex.
RECURSIVE prevEndpointFrom(_, _, _)
prevEndpointFrom(endpoints, verts, j) ==
  IF j < 1 THEN verts[1]
  ELSE IF endpoints[j] # Null THEN endpoints[j]
  ELSE prevEndpointFrom(endpoints, verts, j - 1)

\* case "C" of the backward walk with the control points left in place.
reversedCubicKeep(c, prev) == CubicC(c.x1, c.y1, c.x2, c.y2, prev.x, prev.y)

\* case "C" of the backward walk: x1 = c.x2, x2 = c.x1, endpoint prev.
reversedCubic(c, prev) == CubicC(c.x2, c.y2, c.x1, c.y1, prev.x, prev.y)

\* The backward walk of reverseSubpath from command i down to 1.
RECURSIVE reverseWalk(_, _, _, _, _)
reverseWalk(sub, endpoints, verts, i, out) ==
  IF i < 1 THEN out
  ELSE LET c == sub[i]
           prev == prevEndpointFrom(endpoints, verts, i - 1)
           lastOut == out[Len(out)]
           out1 ==
             CASE c.type = "L" -> Append(out, LineC(prev.x, prev.y))
               [] c.type = "H" ->
                    Append(out, LineC(prev.x,
                      IF "y" \in DOMAIN lastOut THEN lastOut.y ELSE prev.y))
               [] c.type = "V" ->
                    Append(out, LineC(
                      IF "x" \in DOMAIN lastOut THEN lastOut.x ELSE prev.x, prev.y))
               [] c.type = "Q" -> Append(out, QuadC(c.x1, c.y1, prev.x, prev.y))
               [] c.type = "C" -> Append(out, reversedCubic(c, prev))
               [] OTHER -> out
       IN  reverseWalk(sub, endpoints, verts, i - 1, out1)

reverseSubpath(sub) ==
  LET st == endpointLoop([endpoints |-> <<>>, verts |-> <<>>,
                          cx |-> Zero, cy |-> Zero], sub)
      verts == st.verts
      lastV == verts[Len(verts)]
      walked == reverseWalk(sub, st.endpoints, verts, Len(sub),
                            <<MoveC(lastV.x, lastV.y)>>)
  IN  IF Len(verts) = 0 THEN sub
      ELSE IF \E i \in 1..Len(sub) : sub[i].type = "Z"
           THEN Append(walked, CloseC) ELSE walked

\* Whether subpath idx (0-based) must be clockwise.
shouldBeCW(outerShouldBeCW, idx) == IF outerShouldBeCW THEN idx = 0 ELSE FALSE

normalizeSubpath(sub, h, outerShouldBeCW, idx) ==
  LET area == getSignedAreaFontSpace(sub, h)
      isCW == Lt(area, Zero)
      needsReverse == IF shouldBeCW(outerShouldBeCW, idx) THEN ~isCW ELSE isCW
  IN  IF needsReverse THEN reverseSubpath(sub) ELSE sub

RECURSIVE normalizeLoop(_, _, _, _)
normalizeLoop(subpaths, h, outerShouldBeCW, idx) ==
  IF idx >= Len(subpaths) THEN <<>>
  ELSE normalizeSubpath(subpaths[idx + 1], h, outerShouldBeCW, idx)
       \o normalizeLoop(subpaths, h, outerShouldBeCW, idx + 1)

getNormalizedWindingForFont(cmds, h, outerShouldBeCW) ==
  normalizeLoop(splitSubpaths(getOpenTypeCommands(cmds)), h, outerShouldBeCW, 0)

-----------------------------------------------------------------------------
(* Font-Space Projector.  The emitted opentype.js path is the sequence of  *)
(* draw instructions, each with the coordinates it is called with.         *)

moveTo(x, y) == [op |-> "moveTo", x |-> x, y |-> y]

lineTo(x, y) == [op |-> "lineTo", x |-> x, y |-> y]

quadraticCurveTo(x1, y1, x, y) ==
  [op |-> "quadraticCurveTo", x1 |-> x1, y1 |-> y1, x |-> x, y |-> y]

curveTo(x1, y1, x2, y2, x, y) ==
  [op |-> "curveTo", x1 |-> x1, y1 |-> y1, x2 |-> x2, y2 |-> y2, x |-> x, y |-> y]

closePath == [op |-> "close"]

\* One draw instruction for a canonical command, given the x and y maps as
\* functions of the command's numbers.
emit(cmd, fx, fy) ==
  CASE cmd.type = "M" -> moveTo(fx[cmd.x], fy[cmd.y])
    [] cmd.type = "L" -> lineTo(fx[cmd.x], fy[cmd.y])
    [] cmd.type = "Q" ->
         quadraticCurveTo(fx[cmd.x1], fy[cmd.y1], fx[cmd.x], fy[cmd.y])
    [] cmd.type = "C" ->
         curveTo(fx[cmd.x1], fy[cmd.y1], fx[cmd.x2], fy[cmd.y2], fx[cmd.x], fy[cmd.y])
    [] cmd.type = "Z" -> closePath

\* The bounding-box-anchored projector (IconPath with its own command model).
toOpenTypePath(cmds, w, h, ascender, descender) ==
  LET metricsHeight == Sub(ascender, descender)
      factorX == Div(metricsHeight, w)
      factorY == Div(metricsHeight, h)
      norm == getNormalizedWindingForFont(cmds, h, TRUE)
      bbox == getCommandBounds(cmds)
      offsetY == Sub(ascender, Mul(bbox.maxY, factorY))
  IN  [i \in 1..Len(norm) |->
         emit(norm[i], [x \in numsOf(norm[i]) |-> Mul(x, factorX)],
                       [y \in numsOf(norm[i]) |->
                          Add(offsetY, Mul(Sub(h, y), factorY))])]

\* directY without the flip of the y axis.
directYNoFlip(y, ascender, factorY) == Add(ascender, Mul(y, factorY))

\* The font y the direct-map projector gives a design y.
directY(y, ascender, factorY) == Sub(ascender, Mul(y, factorY))

\* The direct-map projector (IconPath extends Path).
toOpenTypePathDirect(cmds, w, h, ascender, descender) ==
  LET metricsHeight == Sub(ascender, descender)
      factorX == Div(metricsHeight, w)
      factorY == Div(metricsHeight, h)
      norm == getNormalizedWindingForFont(cmds, h, TRUE)
  IN  [i \in 1..Len(norm) |->
         emit(norm[i], [x \in numsOf(norm[i]) |-> Mul(x, factorX)],
                       [y \in numsOf(norm[i]) |-> directY(y, ascender, factorY)])]

-----------------------------------------------------------------------------
(* The object model.  heap maps an array identity to its contents; a path   *)
(* holds width, height and the identity of its _commands array, so two     *)
(* paths may hold the same array.  CallerLists are arrays the caller keeps  *)
(* a reference to and may hand to the constructor.  origin is a history     *)
(* field: how the path was made.  last records the last operation: its     *)
(* name, the path it ran on, its arguments, the heap before it (pre), the  *)
(* commands of that path before it (was), what it returned (out), and how  *)
(* many operations have run (n).                                           *)

MaxOps == 3

PathIds == {1, 2, 3}

CallerLists == {0}

ArrayIds == 0..(Cardinality(CallerLists) + Cardinality(PathIds))

NoPath == [live |-> FALSE, width |-> Zero, height |-> Zero, commands |-> 0,
           origin |-> <<"none">>]

\* An IconFont instance: its icons (the paths of its glyphs), its metrics and
\* its _buffer.  A buffer is an identity (0: _buffer is undefined) and the
\* glyph outlines serialized into it.  builds and served are history fields:
\* how many times the font was built and serialized, and the identities of
\* the buffers the exports were derived from.
NoBuffer == [id |-> 0, glyphs |-> <<>>]

NoFont == [icons |-> <<>>, ascender |-> Zero, descender |-> Zero,
           buffer |-> NoBuffer, builds |-> 0, served |-> {}]

Live(p) == paths[p].live

cmdsOf(p) == heap[paths[p].commands]

CanStep == last.n < MaxOps

Record(op, p, args, out) ==
  [op |-> op, p |-> p, args |-> args, pre |-> heap,
   was |-> IF Live(p) THEN cmdsOf(p) ELSE <<>>, out |-> out, n |-> last.n + 1]

\* An operation of a path: it is recorded, and no font is touched.
Log(op, p, args, out) == last' = Record(op, p, args, out) /\ UNCHANGED font

Referenced(ps, i) ==
  i \in CallerLists \/ \E p \in PathIds : ps[p].live /\ ps[p].commands = i

\* The identity a newly created array gets: one nothing refers to.
fresh == CHOOSE i \in ArrayIds :
           /\ ~Referenced(paths, i)
           /\ \A j \in ArrayIds : ~Referenced(paths, j) => i <= j

\* Arrays nothing refers to any more are dropped.
Collect(hp, ps) == [i \in ArrayIds |-> IF Referenced(ps, i) THEN hp[i] ELSE <<>>]

\* new IconPath(width, height): commands defaults to a new empty array.
New(p, width, height) ==
  /\ CanStep /\ ~Live(p)
  /\ paths' = [paths EXCEPT ![p] = [live |-> TRUE, width |-> width, height |-> height,
                                    commands |-> fresh, origin |-> <<"new">>]]
  /\ heap' = Collect([heap EXCEPT ![fresh] = <<>>], paths')
  /\ Log("new", p, <<width, height>>, <<>>)

\* new IconPath(width, height, list): this._commands = commands.
NewFrom(p, width, height, list) ==
  /\ CanStep /\ ~Live(p)
  /\ paths' = [paths EXCEPT ![p] = [live |-> TRUE, width |-> width, height |-> height,
                                    commands |-> list, origin |-> <<"list", list>>]]
  /\ heap' = heap
  /\ Log("newFrom", p, <<width, height, list>>, <<>>)

\* this._commands.push(cmd)
push(p, cmd) ==
  /\ CanStep /\ Live(p)
  /\ heap' = [heap EXCEPT ![paths[p].commands] = Append(@, cmd)]
  /\ UNCHANGED paths

BuilderM(p, x, y) == push(p, MoveC(x, y)) /\ Log("m", p, <<x, y>>, <<>>)

BuilderL(p, x, y) == push(p, LineC(x, y)) /\ Log("l", p, <<x, y>>, <<>>)

BuilderH(p, x) == push(p, HC(x)) /\ Log("h", p, <<x>>, <<>>)

BuilderV(p, y) == push(p, VC(y)) /\ Log("v", p, <<y>>, <<>>)

BuilderQ(p, x1, y1, x, y) ==
  push(p, QuadC(x1, y1, x, y)) /\ Log("q", p, <<x1, y1, x, y>>, <<>>)

BuilderC(p, x1, y1, x2, y2, x, y) ==
  /\ push(p, CubicC(x1, y1, x2, y2, x, y))
  /\ Log("c", p, <<x1, y1, x2, y2, x, y>>, <<>>)

BuilderT(p, x, y) == push(p, SmoothQuadC(x, y)) /\ Log("t", p, <<x, y>>, <<>>)

BuilderS(p, x2, y2, x, y) ==
  push(p, SmoothCubicC(x2, y2, x, y)) /\ Log("s", p, <<x2, y2, x, y>>, <<>>)

BuilderClose(p) == push(p, CloseC) /\ Log("close", p, <<>>, <<>>)

\* this._commands = this._commands.map(...): the path gets a new array.
replaceCommands(p, new) ==
  /\ CanStep /\ Live(p)
  /\ paths' = [paths EXCEPT ![p].commands = fresh]
  /\ heap' = Collect([heap EXCEPT ![fresh] = new], paths')

Scale(p, sx, sy, cx, cy) ==
  /\ replaceCommands(p, scale(cmdsOf(p), sx, sy, cx, cy))
  /\ Log("scale", p, <<sx, sy, cx, cy>>, <<>>)

\* scale(s): sy defaults to sx, the pivot to the canvas centre.
ScaleDefault(p, sx) ==
  Scale(p, sx, sx, Div(paths[p].width, Two), Div(paths[p].height, Two))

Translate(p, dx, dy) ==
  /\ replaceCommands(p, translate(cmdsOf(p), dx, dy))
  /\ Log("translate", p, <<dx, dy>>, <<>>)

FlipX(p, width) ==
  /\ replaceCommands(p, flipX(cmdsOf(p), width))
  /\ Log("flipX", p, <<width>>, <<>>)

FlipY(p, height) ==
  /\ replaceCommands(p, flipY(cmdsOf(p), height))
  /\ Log("flipY", p, <<height>>, <<>>)

Center(p, minX, minY, maxX, maxY) ==
  /\ replaceCommands(p, center(cmdsOf(p), minX, minY, maxX, maxY))
  /\ Log("center", p, <<minX, minY, maxX, maxY>>, <<>>)

\* center(): the box defaults to (0,0)-(width,height).
CenterDefault(p) == Center(p, Zero, Zero, paths[p].width, paths[p].height)

Fit(p, preserveAspect) ==
  /\ replaceCommands(p, fit(cmdsOf(p), paths[p].width, paths[p].height, preserveAspect))
  /\ Log("fit", p, <<preserveAspect>>, <<>>)

AlignToFont(p, ascender, descender, mode) ==
  /\ replaceCommands(p, alignToFont(cmdsOf(p), paths[p].height, ascender, descender, mode))
  /\ Log("alignToFont", p, <<ascender, descender, mode>>, <<>>)

\* this._commands.map((cmd) => ({ ...cmd })): an equal list of new objects.
copiedCommands(cmds) == [i \in 1..Len(cmds) |-> cmds[i]]

\* clone(): the array the new path holds (a new one, holding the copy).
cloneArrayShared(o) == paths[o].commands

cloneArray(o) == fresh

Clone(o, p) ==
  /\ CanStep /\ Live(o) /\ ~Live(p)
  /\ LET a == cloneArray(o)
     IN  /\ paths' = [paths EXCEPT ![p] = [live |-> TRUE, width |-> paths[o].width,
                                           height |-> paths[o].height, commands |-> a,
                                           origin |-> <<"clone", o>>]]
         /\ heap' = Collect([heap EXCEPT ![a] = copiedCommands(cmdsOf(o))], paths')
  /\ Log("clone", p, <<o>>, <<>>)

\* mergedCommands with every later path's commands put in front.
RECURSIVE mergedCommandsBackwards(_)
mergedCommandsBackwards(srcs) ==
  IF srcs = <<>> THEN <<>>
  ELSE mergedCommandsBackwards(Tail(srcs)) \o cmdsOf(Head(srcs))

\* merged._commands.push(...p.commands) for each p of srcs, in order.
RECURSIVE mergedCommands(_)
mergedCommands(srcs) ==
  IF srcs = <<>> THEN <<>> ELSE cmdsOf(Head(srcs)) \o mergedCommands(Tail(srcs))

Merge(srcs, p, width, height) ==
  /\ CanStep /\ ~Live(p)
  /\ \A i \in 1..Len(srcs) : Live(srcs[i])
  /\ paths' = [paths EXCEPT ![p] = [live |-> TRUE, width |-> width, height |-> height,
                                    commands |-> fresh, origin |-> <<"merge", srcs>>]]
  /\ heap' = Collect([heap EXCEPT ![fresh] = mergedCommands(srcs)], paths')
  /\ Log("merge", p, <<srcs, width, height>>, <<>>)

\* merge(paths): width = 24, height = width.
MergeDefault(srcs, p) == Merge(srcs, p, R(24), R(24))

\* merge(paths, width): height = width.
MergeSquare(srcs, p, width) == Merge(srcs, p, width, width)

\* A query that stores the canonical form of the list back into the path.
retainedCanonical(cmds, out) == getOpenTypeCommands(cmds)

\* this._commands after a query: no query assigns it or pushes to it.
retained(cmds, out) == cmds

\* The queries: none writes the path.
Query(p, op, args, out) ==
  /\ CanStep /\ Live(p)
  /\ heap' = [heap EXCEPT ![paths[p].commands] = retained(@, out)]
  /\ UNCHANGED paths
  /\ Log(op, p, args, out)

GetNormalizedWindingForFont(p, outerShouldBeCW) ==
  Query(p, "getNormalizedWindingForFont", <<outerShouldBeCW>>,
        getNormalizedWindingForFont(cmdsOf(p), paths[p].height, outerShouldBeCW))

ToOpenTypePath(p, ascender, descender) ==
  Query(p, "toOpenTypePath", <<ascender, descender>>,
        toOpenTypePath(cmdsOf(p), paths[p].width, paths[p].height, ascender, descender))

ToOpenTypePathDirect(p, ascender, descender) ==
  Query(p, "toOpenTypePathDirect", <<ascender, descender>>,
        toOpenTypePathDirect(cmdsOf(p), paths[p].width, paths[p].height,
                             ascender, descender))

-----------------------------------------------------------------------------
(* Spec: several paths, the caller's list, every builder and transform.    *)

NoOp == [op |-> "init", p |-> 0, args |-> <<>>, pre |-> <<>>, was |-> <<>>,
         out |-> <<>>, n |-> 0]

CallerInputs == {<<>>, <<M(1, 2), L(5, 2)>>}

Init ==
  /\ heap \in {[i \in ArrayIds |-> IF i \in CallerLists THEN l ELSE <<>>] :
                 l \in CallerInputs}
  /\ paths = [p \in PathIds |-> NoPath]
  /\ last = NoOp
  /\ font = NoFont

Construct ==
  \E p \in PathIds :
    \/ New(p, R(24), R(24))
    \/ \E list \in CallerLists : NewFrom(p, R(24), R(24), list)
    \/ \E o \in PathIds : Clone(o, p)
    \/ \E o \in PathIds : Merge(<<o>>, p, R(24), R(24))
    \/ \E o \in PathIds : Merge(<<o, o>>, p, R(24), R(12))

Build ==
  \E p \in PathIds :
    \/ BuilderM(p, R(2), R(3))
    \/ BuilderL(p, R(6), R(3))
    \/ BuilderH(p, R(8))
    \/ BuilderV(p, R(7))
    \/ BuilderQ(p, R(8), R(9), R(4), R(9))
    \/ BuilderC(p, R(1), R(1), R(2), R(0), R(3), R(1))
    \/ BuilderT(p, R(0), R(9))
    \/ BuilderS(p, R(4), R(4), R(5), R(1))
    \/ BuilderClose(p)

Transform ==
  \E p \in PathIds :
    \/ ScaleDefault(p, Two)
    \/ Translate(p, R(1), R(-2))
    \/ FlipX(p, paths[p].width)
    \/ FlipY(p, paths[p].height)
    \/ CenterDefault(p)
    \/ Fit(p, TRUE)
    \/ AlignToFont(p, R(800), R(-200), "descender")

Next == Construct \/ Build \/ Transform

Spec == Init /\ [][Next]_vars

-----------------------------------------------------------------------------
(* SpecGeom: one path, made from an input list, under the transforms and   *)
(* the projectors.                                                         *)

Square == <<M(0, 0), L(24, 0), L(24, 24), L(0, 24), L(0, 0), Z>>

\* rect 24 x 19 at the origin with a chamfered top-right corner (6, 6).
FileShape == <<M(0, 0), L(18, 0), L(24, 6), L(24, 19), L(0, 19), L(0, 0), Z>>

\* Square scaled by 1/10 about the canvas centre and moved to the bottom.
BottomSquare ==
  translate(scale(Square, Frac(1, 10), Frac(1, 10), R(12), R(12)),
            Zero, Frac(54, 5))

GeomInputs ==
  {[w |-> R(24), h |-> R(24), cmds |-> Square],
   [w |-> R(24), h |-> R(24), cmds |-> FileShape],
   [w |-> R(24), h |-> R(24), cmds |-> BottomSquare],
   [w |-> R(24), h |-> R(24), cmds |-> <<M(3, 5), L(10, 5)>>],
   [w |-> R(24), h |-> R(24), cmds |-> <<M(4, 2), V(9)>>],
   [w |-> R(24), h |-> R(24), cmds |-> <<H(5), H(9)>>],
   [w |-> R(24), h |-> R(24), cmds |-> <<V(3), V(5)>>],
   [w |-> R(24), h |-> R(24), cmds |-> <<Z>>],
   [w |-> R(24), h |-> R(24), cmds |-> <<>>],
   [w |-> R(24), h |-> R(24), cmds |-> <<M(2, 4), Q(30, 10, 2, 16), Z>>],
   [w |-> R(24), h |-> R(12), cmds |-> <<M(2, 2), L(8, 2), L(8, 5), Z>>],
   [w |-> R(24), h |-> R(12),
    cmds |-> <<M(1, 1), C(3, 0, 5, 8, 7, 2), S(9, 9, 10, 4), T(12, 6), H(3)>>]}

InitWith(inputs) ==
  \E in \in inputs :
    /\ heap = [i \in ArrayIds |-> IF i = 1 THEN in.cmds ELSE <<>>]
    /\ paths = [p \in PathIds |->
                  IF p = 1
                  THEN [live |-> TRUE, width |-> in.w, height |-> in.h,
                        commands |-> 1, origin |-> <<"new">>]
                  ELSE NoPath]
    /\ last = [NoOp EXCEPT !.n = 1]
    /\ font = NoFont

InitGeom == InitWith(GeomInputs)

Metrics == {<<R(800), R(-200)>>, <<R(900), R(100)>>}

AlignMetrics == {<<R(800), R(-200)>>, <<R(-100), R(300)>>}

AlignModes == {"baseline", "ascender", "descender", "center"}

GeomTransform ==
  \/ \E sx \in {Frac(1, 2), R(3)} : ScaleDefault(1, sx)
  \/ Scale(1, Two, Frac(1, 2), Zero, R(4))
  \/ \E d \in {<<R(1), R(-2)>>, <<R(-3), Frac(5, 2)>>} : Translate(1, d[1], d[2])
  \/ FlipX(1, paths[1].width)
  \/ FlipY(1, paths[1].height)
  \/ CenterDefault(1)
  \/ \E b \in {<<R(0), R(0), R(24), R(19)>>, <<R(4), R(6), R(10), R(8)>>} :
       Center(1, b[1], b[2], b[3], b[4])
  \/ \E preserveAspect \in BOOLEAN : Fit(1, preserveAspect)
  \/ \E fm \in AlignMetrics, mode \in AlignModes : AlignToFont(1, fm[1], fm[2], mode)

GeomProject ==
  \E fm \in Metrics :
    \/ ToOpenTypePath(1, fm[1], fm[2])
    \/ ToOpenTypePathDirect(1, fm[1], fm[2])

NextGeom == GeomTransform \/ GeomProject

SpecGeom == InitGeom /\ [][NextGeom]_vars

-----------------------------------------------------------------------------
(* SpecWind: one path made of up to MaxSub pieces, under the winding       *)
(* normalizer.                                                             *)

MaxSub == 2

Pieces ==
  {<<M(0, 0), L(8, 0), L(8, 8), Z>>,
   <<M(0, 0), L(8, 8), L(8, 0), Z>>,
   <<M(2, 2), Q(9, 2, 9, 9), L(2, 9), Z>>,
   <<M(2, 2), L(2, 9), C(4, 9, 9, 7, 9, 2)>>,
   <<M(0, 0), L(4, 0), L(9, 0), Z>>,
   <<M(3, 3)>>,
   <<L(8, 0), L(8, 8), L(0, 4), Z>>,
   <<M(1, 1), H(7), V(7), Z>>,
   <<M(1, 1), V(7), H(7), Z>>,
   <<M(0, 0), Q(4, 4, 8, 0), T(16, 0), S(12, 12, 8, 12), Z>>,
   <<Z>>}

RECURSIVE Concat(_)
Concat(seqs) == IF seqs = <<>> THEN <<>> ELSE Head(seqs) \o Concat(Tail(seqs))

WindInputs ==
  {[w |-> R(24), h |-> R(24), cmds |-> Concat(ps)] :
     ps \in UNION {[1..k -> Pieces] : k \in 0..MaxSub}}

InitWind == InitWith(WindInputs)

NextWind ==
  \/ \E outerShouldBeCW \in BOOLEAN : GetNormalizedWindingForFont(1, outerShouldBeCW)
  \/ ToOpenTypePath(1, R(800), R(-200))

SpecWind == InitWind /\ [][NextWind]_vars

-----------------------------------------------------------------------------
(* Vocabulary of the properties.                                           *)

Le(a, b) == a = b \/ Lt(a, b)

HasX(cmds) == allXs(cmds) # <<>>

HasY(cmds) == allYs(cmds) # <<>>

WidthOf(b) == Sub(b.maxX, b.minX)

HeightOf(b) == Sub(b.maxY, b.minY)

MidX(b) == Div(Add(b.minX, b.maxX), Two)

MidY(b) == Div(Add(b.minY, b.maxY), Two)

Box(minX, minY, maxX, maxY) ==
  [minX |-> minX, minY |-> minY, maxX |-> maxX, maxY |-> maxY]

\* The path the last operation ran on, now.
Now == cmdsOf(last.p)

WasBounds == getCommandBounds(last.was)

NowBounds == getCommandBounds(Now)

Mutators ==
  {"m", "l", "h", "v", "q", "c", "t", "s", "close",
   "scale", "translate", "flipX", "flipY", "center", "fit", "alignToFont"}

\* Winding of a subpath from its endpoint polygon in font space.
WindingOf(sub, h) ==
  LET area == getSignedAreaFontSpace(sub, h)
  IN  IF Lt(area, Zero) THEN "cw" ELSE IF Gt(area, Zero) THEN "ccw" ELSE "none"

\* Bounds over every coordinate an emitted draw instruction carries.
emittedXs(out) ==
  [i \in 1..Len(out) |->
     (IF "x" \in DOMAIN out[i] THEN <<out[i].x>> ELSE <<>>) \o
     (IF "x1" \in DOMAIN out[i] THEN <<out[i].x1>> ELSE <<>>) \o
     (IF "x2" \in DOMAIN out[i] THEN <<out[i].x2>> ELSE <<>>)]

emittedYs(out) ==
  [i \in 1..Len(out) |->
     (IF "y" \in DOMAIN out[i] THEN <<out[i].y>> ELSE <<>>) \o
     (IF "y1" \in DOMAIN out[i] THEN <<out[i].y1>> ELSE <<>>) \o
     (IF "y2" \in DOMAIN out[i] THEN <<out[i].y2>> ELSE <<>>)]

EmittedBounds(out) ==
  [minX |-> runningMin(Concat(emittedXs(out)), PosInf),
   minY |-> runningMin(Concat(emittedYs(out)), PosInf),
   maxX |-> runningMax(Concat(emittedXs(out)), NegInf),
   maxY |-> runningMax(Concat(emittedYs(out)), NegInf)]

-----------------------------------------------------------------------------
(* C1 *)

\* The winding the claim requires of output subpath i (1-based).
RequiredWinding(outerShouldBeCW, i) ==
  IF i = 1 THEN (IF outerShouldBeCW THEN "cw" ELSE "ccw")
  ELSE (IF outerShouldBeCW THEN "ccw" ELSE "cw")

AllSubpathsHaveArea(cmds, h) ==
  LET subs == splitSubpaths(getOpenTypeCommands(cmds))
  IN  \A i \in 1..Len(subs) : WindingOf(subs[i], h) # "none"

\* C1: for a path whose subpaths all have non-zero endpoint-polygon area and
\* for either flag, in the output of getNormalizedWindingForFont the first
\* subpath has the requested winding and every later subpath the opposite
\* winding.
C1_WindingPolicy ==
  (last.op = "getNormalizedWindingForFont"
   /\ AllSubpathsHaveArea(last.was, paths[last.p].height))
  => LET outs == splitSubpaths(last.out)
     IN  \A i \in 1..Len(outs) :
           WindingOf(outs[i], paths[last.p].height)
             = RequiredWinding(last.args[1], i)

\* What the code does: with the flag set the policy holds; without it every
\* subpath, the first and the holes alike, ends counter-clockwise.
C1_CodeBehaviour ==
  (last.op = "getNormalizedWindingForFont"
   /\ AllSubpathsHaveArea(last.was, paths[last.p].height))
  => LET outs == splitSubpaths(last.out)
     IN  \A i \in 1..Len(outs) :
           WindingOf(outs[i], paths[last.p].height)
             = IF last.args[1] /\ i = 1 THEN "cw" ELSE "ccw"

-----------------------------------------------------------------------------
(* C2 *)

\* The draw instruction the claim expects for a canonical command: x at
\* x*(ascender-descender)/W, y at ascender - y*(ascender-descender)/H.
ExpectedDirect(cmd, w, h, ascender, descender) ==
  emit(cmd,
       [x \in numsOf(cmd) |-> Div(Mul(x, Sub(ascender, descender)), w)],
       [y \in numsOf(cmd) |->
          Sub(ascender, Div(Mul(y, Sub(ascender, descender)), h))])

IsDirect(cmds, ascender, descender) ==
  /\ last.op = "toOpenTypePathDirect"
  /\ last.was = cmds
  /\ last.args = <<R(ascender), R(descender)>>
  /\ paths[last.p].width = R(24) /\ paths[last.p].height = R(24)

\* C2: the direct-map toOpenTypePath emits every endpoint and control point
\* (x, y) of the normalized canonical commands at (x*(asc-desc)/W,
\* asc - y*(asc-desc)/H); at 800/-200 the full 24x24 square projects to
\* (0,-200)-(1000,800), the square scaled by 0.5 about the centre to
\* (250,50)-(750,550), the square scaled by 1/10 at the canvas bottom to y in
\* [-200,-100].
C2_DirectMap ==
  /\ last.op = "toOpenTypePathDirect" =>
       LET pth == paths[last.p]
           norm == getNormalizedWindingForFont(last.was, pth.height, TRUE)
       IN  /\ Len(last.out) = Len(norm)
           /\ \A i \in 1..Len(norm) :
                last.out[i] = ExpectedDirect(norm[i], pth.width, pth.height,
                                             last.args[1], last.args[2])
  /\ IsDirect(Square, 800, -200) =>
       EmittedBounds(last.out) = Box(R(0), R(-200), R(1000), R(800))
  /\ IsDirect(scale(Square, Frac(1, 2), Frac(1, 2), R(12), R(12)), 800, -200) =>
       EmittedBounds(last.out) = Box(R(250), R(50), R(750), R(550))
  /\ IsDirect(BottomSquare, 800, -200) =>
       EmittedBounds(last.out) = Box(R(450), R(-200), R(550), R(-100))

\* The half-size square, reached by scale(0.5), has been projected.
C2_Witness ==
  /\ IsDirect(scale(Square, Frac(1, 2), Frac(1, 2), R(12), R(12)), 800, -200)
  /\ last.n = 3
  /\ Len(last.out) = 6

-----------------------------------------------------------------------------
(* C3 *)

\* C3: winding normalization is idempotent: normalizing a path built from the
\* output of getNormalizedWindingForFont(b) with the same flag returns that
\* output again, for every path.
C3_Idempotent ==
  last.op = "getNormalizedWindingForFont"
  => getNormalizedWindingForFont(last.out, paths[last.p].height, last.args[1])
       = last.out

-----------------------------------------------------------------------------
(* C4 *)

\* C4: fit() on a path whose command bounds have zero width or zero height
\* leaves the command list unchanged, for either value of preserveAspect.
C4_FitDegenerateUnchanged ==
  (last.op = "fit"
   /\ (WidthOf(WasBounds) = Zero \/ HeightOf(WasBounds) = Zero))
  => Now = last.was

-----------------------------------------------------------------------------
(* C5 *)

\* C5: no two path instances share command-list state: after a builder
\* append or a transform on one instance, the command list of every other
\* instance, and the list a path was constructed from, is unchanged.
C5_NoSharedState ==
  last.op \in Mutators
  => /\ \A q \in PathIds \ {last.p} :
          Live(q) => cmdsOf(q) = last.pre[paths[q].commands]
     /\ \A list \in CallerLists : heap[list] = last.pre[list]

-----------------------------------------------------------------------------
(* C6 *)

IsCloneOf(c, o) == Live(c) /\ paths[c].origin = <<"clone", o>>

\* C6: clone() returns a new path with the same width, height and an equal
\* command list, and afterwards an append or transform on the clone leaves
\* the original's commands unchanged, and one on the original leaves the
\* clone's commands unchanged.
C6_CloneIndependent ==
  /\ last.op = "clone" =>
       LET o == last.args[1]
       IN  /\ paths[last.p].width = paths[o].width
           /\ paths[last.p].height = paths[o].height
           /\ cmdsOf(last.p) = cmdsOf(o)
           /\ cmdsOf(o) = last.pre[paths[o].commands]
  /\ last.op \in Mutators =>
       \A q \in PathIds :
         (IsCloneOf(q, last.p) \/ IsCloneOf(last.p, q))
           => cmdsOf(q) = last.pre[paths[q].commands]

\* A clone of a non-empty path has been changed by an operation.
C6_Witness ==
  /\ last.op \in Mutators
  /\ \E o \in PathIds : IsCloneOf(last.p, o) /\ cmdsOf(o) # <<>>
  /\ Now # last.was

-----------------------------------------------------------------------------
(* C7 *)

\* C7: for a path with at least one x and one y coordinate, after
\* center(minX, minY, maxX, maxY) the bounds have the same width and height
\* as before and their midpoint is the midpoint of the target box; a shape 24
\* wide and 19 tall centred in the 24x24 box ends at x 0..24, y 2.5..21.5.
C7_Centered ==
  (last.op = "center" /\ HasX(last.was) /\ HasY(last.was))
  => /\ WidthOf(NowBounds) = WidthOf(WasBounds)
     /\ HeightOf(NowBounds) = HeightOf(WasBounds)
     /\ MidX(NowBounds) = Div(Add(last.args[1], last.args[3]), Two)
     /\ MidY(NowBounds) = Div(Add(last.args[2], last.args[4]), Two)
     /\ (/\ WidthOf(WasBounds) = R(24) /\ HeightOf(WasBounds) = R(19)
         /\ last.args = <<R(0), R(0), R(24), R(24)>>)
        => NowBounds = Box(R(0), Frac(5, 2), R(24), Frac(43, 2))

\* The 24 x 19 shape has been centred in the 24 x 24 box and has moved.
C7_Witness ==
  /\ last.op = "center"
  /\ last.was = FileShape
  /\ last.args = <<R(0), R(0), R(24), R(24)>>
  /\ Now # last.was

-----------------------------------------------------------------------------
(* C8 *)

\* What alignToFont must establish, by mode.
AlignedAs(mode, b, designHeight, ascender, descender) ==
  CASE mode = "ascender" -> b.minY = Zero
    [] mode = "descender" -> b.maxY = designHeight
    [] mode = "center" -> MidY(b) = Div(designHeight, Two)
    [] mode = "baseline" ->
         b.maxY = Div(Mul(designHeight, ascender), Sub(ascender, descender))

AlignPost ==
  /\ NowBounds.minX = WasBounds.minX
  /\ NowBounds.maxX = WasBounds.maxX
  /\ HeightOf(NowBounds) = HeightOf(WasBounds)
  /\ AlignedAs(last.args[3], NowBounds, paths[last.p].height,
               last.args[1], last.args[2])

\* C8 as stated: alignToFont with ascender # descender on a non-empty path
\* is a pure vertical translation after which the bounds sit on the
\* landmark of the mode.
C8_AlignNonEmpty ==
  (last.op = "alignToFont" /\ last.args[1] # last.args[2] /\ last.was # <<>>)
  => AlignPost

\* C8 as amended: the same, on a path that has at least one y coordinate
\* (a command other than H and Z); bounds 0..19 in a 24-tall space with
\* 800/-200 become 5..24, 0..19, 2.5..21.5 and 0.2..19.2.
C8_AlignWithY ==
  (last.op = "alignToFont" /\ last.args[1] # last.args[2] /\ HasY(last.was))
  => /\ AlignPost
     /\ (/\ WasBounds.minY = R(0) /\ WasBounds.maxY = R(19)
         /\ paths[last.p].height = R(24)
         /\ last.args[1] = R(800) /\ last.args[2] = R(-200))
        => <<NowBounds.minY, NowBounds.maxY>> =
             CASE last.args[3] = "descender" -> <<R(5), R(24)>>
               [] last.args[3] = "ascender" -> <<R(0), R(19)>>
               [] last.args[3] = "center" -> <<Frac(5, 2), Frac(43, 2)>>
               [] last.args[3] = "baseline" -> <<Frac(1, 5), Frac(96, 5)>>

\* The 24 x 19 shape has been aligned to the descender and has moved.
C8_Witness ==
  /\ last.op = "alignToFont"
  /\ last.was = FileShape
  /\ last.args = <<R(800), R(-200), "descender">>
  /\ Now # last.was

-----------------------------------------------------------------------------
(* C9 *)

FitPost ==
  LET pth == paths[last.p]
      s == MathMin(Div(pth.width, WidthOf(WasBounds)),
                   Div(pth.height, HeightOf(WasBounds)))
  IN  IF last.args[1]
      THEN /\ WidthOf(NowBounds) = Mul(WidthOf(WasBounds), s)
           /\ HeightOf(NowBounds) = Mul(HeightOf(WasBounds), s)
           /\ MidX(NowBounds) = Div(pth.width, Two)
           /\ MidY(NowBounds) = Div(pth.height, Two)
           /\ Le(Zero, NowBounds.minX) /\ Le(NowBounds.maxX, pth.width)
           /\ Le(Zero, NowBounds.minY) /\ Le(NowBounds.maxY, pth.height)
           /\ (WidthOf(NowBounds) = pth.width \/ HeightOf(NowBounds) = pth.height)
      ELSE NowBounds = Box(Zero, Zero, pth.width, pth.height)

\* C9 as stated: for a path whose bounds have non-zero width and height,
\* fit(false) makes the bounds equal the canvas, and fit(true) scales both
\* axes by min(W/w, H/h), leaving the bounds centred, inside the canvas and
\* touching it on at least one axis.
C9_FitNonZero ==
  (last.op = "fit"
   /\ WidthOf(WasBounds) # Zero /\ HeightOf(WasBounds) # Zero)
  => FitPost

\* C9 as amended: the same, for a path that has at least one x and one y
\* coordinate and whose bounds have non-zero width and height; the 24 x 19
\* shape in the 24 x 24 canvas keeps x 0..24, y 2.5..21.5 under fit(true).
C9_FitPositive ==
  (last.op = "fit" /\ HasX(last.was) /\ HasY(last.was)
   /\ WidthOf(WasBounds) # Zero /\ HeightOf(WasBounds) # Zero)
  => /\ FitPost
     /\ (last.was = FileShape /\ last.args[1])
        => NowBounds = Box(R(0), Frac(5, 2), R(24), Frac(43, 2))

\* A shape smaller than a non-square canvas has been fitted without keeping
\* its aspect.
C9_Witness ==
  /\ last.op = "fit" /\ ~last.args[1]
  /\ HasX(last.was) /\ HasY(last.was)
  /\ paths[last.p].width # paths[last.p].height
  /\ WidthOf(WasBounds) # Zero /\ HeightOf(WasBounds) # Zero
  /\ Now # last.was

-----------------------------------------------------------------------------
(* C10 *)

\* C10: in the bounding-box-anchored toOpenTypePath, for a non-empty path
\* and ascender > descender, the top edge of the bounds (minY) is emitted at
\* font Y = ascender: the highest emitted y is the ascender.
C10_TopAtAscender ==
  (last.op = "toOpenTypePath" /\ HasY(last.was)
   /\ \A i \in 1..Len(last.was) : last.was[i].type \in {"M", "L", "Q", "C", "Z"}
   /\ Gt(last.args[1], last.args[2]))
  => EmittedBounds(last.out).maxY = last.args[1]

-----------------------------------------------------------------------------
(* C11 *)

Projectors == {"toOpenTypePath", "toOpenTypePathDirect"}

\* C11: toOpenTypePath emits exactly one draw instruction per command of the
\* path: the emitted sequence is as long as the path's command list, also
\* when the winding normalizer reverses a subpath, one that does not begin
\* with a Move included.
C11_OnePerCommand ==
  last.op \in Projectors => Len(last.out) = Len(last.was)

-----------------------------------------------------------------------------
(* Queries on the command list, and SpecQuery: one path, grown command by  *)
(* command, under the queries.                                             *)

\* case "Z" of getCurrentPoint with the point left where it is.
closePointStay(st) == Pt(st.x, st.y)

\* case "Z" of getCurrentPoint: x = subpathStartX; y = subpathStartY.
closePoint(st) == Pt(st.subpathStartX, st.subpathStartY)

\* One step of the loop of getCurrentPoint.
currentPointStep(st, cmd) ==
  CASE cmd.type = "M" ->
         [x |-> cmd.x, y |-> cmd.y, subpathStartX |-> cmd.x, subpathStartY |-> cmd.y]
    [] cmd.type \in {"L", "T", "Q", "C", "S"} ->
         [st EXCEPT !.x = cmd.x, !.y = cmd.y]
    [] cmd.type = "H" -> [st EXCEPT !.x = cmd.x]
    [] cmd.type = "V" -> [st EXCEPT !.y = cmd.y]
    [] cmd.type = "Z" ->
         [st EXCEPT !.x = closePoint(st).x, !.y = closePoint(st).y]

RECURSIVE currentPointLoop(_, _)
currentPointLoop(st, cmds) ==
  IF cmds = <<>> THEN st
  ELSE currentPointLoop(currentPointStep(st, Head(cmds)), Tail(cmds))

getCurrentPoint(cmds) ==
  IF Len(cmds) = 0 THEN Pt(Zero, Zero)
  ELSE LET st == currentPointLoop([x |-> Zero, y |-> Zero,
                                   subpathStartX |-> Zero, subpathStartY |-> Zero],
                                  cmds)
       IN  Pt(st.x, st.y)

GetOpenTypeCommands(p) ==
  Query(p, "getOpenTypeCommands", <<>>, getOpenTypeCommands(cmdsOf(p)))

GetCurrentPoint(p) == Query(p, "getCurrentPoint", <<>>, getCurrentPoint(cmdsOf(p)))

GetCommandBounds(p) == Query(p, "getCommandBounds", <<>>, getCommandBounds(cmdsOf(p)))

QueryInputs ==
  {[w |-> R(24), h |-> R(24), cmds |-> <<>>],
   [w |-> R(24), h |-> R(24), cmds |-> <<M(1, 2), Q(9, -3, 5, 6)>>],
   [w |-> R(24), h |-> R(24), cmds |-> <<M(1, 2), C(0, 7, 11, 4, 5, 6)>>],
   [w |-> R(24), h |-> R(24), cmds |-> <<M(5, 5), L(7, 1), Z>>],
   [w |-> R(24), h |-> R(24), cmds |-> <<H(4), V(-2)>>]}

InitQuery ==
  \E in \in QueryInputs :
    /\ heap = [i \in ArrayIds |-> IF i = 1 THEN in.cmds ELSE <<>>]
    /\ paths = [p \in PathIds |->
                  IF p = 1
                  THEN [live |-> TRUE, width |-> in.w, height |-> in.h,
                        commands |-> 1, origin |-> <<"new">>]
                  ELSE NoPath]
    /\ last = NoOp
    /\ font = NoFont

QueryBuild ==
  \/ BuilderM(1, R(2), R(3))
  \/ BuilderL(1, R(6), R(3))
  \/ BuilderH(1, R(8))
  \/ BuilderV(1, R(7))
  \/ BuilderQ(1, R(8), R(9), R(4), R(9))
  \/ BuilderC(1, R(1), R(1), R(2), R(0), R(3), R(1))
  \/ BuilderT(1, R(0), R(10))
  \/ BuilderS(1, R(4), R(4), R(5), R(1))
  \/ BuilderClose(1)

QueryAsk ==
  \/ GetOpenTypeCommands(1)
  \/ GetCurrentPoint(1)
  \/ GetCommandBounds(1)

NextQuery == QueryBuild \/ QueryAsk

SpecQuery == InitQuery /\ [][NextQuery]_vars

-----------------------------------------------------------------------------
(* C12 *)

\* The kind getOpenTypeCommands gives each command kind.
CanonicalKind(type) ==
  CASE type \in {"M", "L", "Q", "C", "Z"} -> type
    [] type \in {"H", "V"} -> "L"
    [] type = "T" -> "Q"
    [] type = "S" -> "C"

\* The fields a canonical command takes unchanged from the command it
\* replaces: all of M, L, Q, C; the x of H, the y of V, the endpoint of T,
\* the second control point and endpoint of S.
Carried(cmd) == DOMAIN cmd \ {"type"}

-----------------------------------------------------------------------------
(* C13 *)

Front(cmds) == SubSeq(cmds, 1, Len(cmds) - 1)

\* The coordinates of the most recent M of cmds; (0,0) when there is none.
RECURSIVE MostRecentMove(_)
MostRecentMove(cmds) ==
  IF cmds = <<>> THEN Pt(Zero, Zero)
  ELSE IF cmds[Len(cmds)].type = "M"
       THEN Pt(cmds[Len(cmds)].x, cmds[Len(cmds)].y)
       ELSE MostRecentMove(Front(cmds))

\* The point the claim gives after cmds, told from the last command back.
RECURSIVE Replay(_)
Replay(cmds) ==
  IF cmds = <<>> THEN Pt(Zero, Zero)
  ELSE LET c == cmds[Len(cmds)]
       IN  CASE c.type \in {"M", "L", "Q", "T", "C", "S"} -> Pt(c.x, c.y)
             [] c.type = "H" -> Pt(c.x, Replay(Front(cmds)).y)
             [] c.type = "V" -> Pt(Replay(Front(cmds)).x, c.y)
             [] c.type = "Z" -> MostRecentMove(Front(cmds))

\* C13: getCurrentPoint() is the result of replaying the command list forward
\* from (0,0): M sets the point and the subpath start; L, Q, T, C and S set
\* the point to their endpoint; H changes only x, V only y; Z resets the
\* point to the most recent M; an empty path gives (0,0).
C13_CurrentPoint ==
  last.op = "getCurrentPoint" =>
    /\ last.out = Replay(last.was)
    /\ last.was = <<>> => last.out = Pt(Zero, Zero)

C13_Witness ==
  /\ last.op = "getCurrentPoint"
  /\ Len(last.was) >= 3
  /\ last.was[Len(last.was)].type = "Z"
  /\ \E i \in 1..Len(last.was) : last.was[i].type = "M"
  /\ last.out # Replay(Front(last.was))

-----------------------------------------------------------------------------
(* C14 *)

\* Every value stored in one of the given fields of some command of cmds.
Stored(cmds, fields) ==
  UNION {{cmds[i][f] : f \in DOMAIN cmds[i] \cap fields} : i \in 1..Len(cmds)}

StoredXs(cmds) == Stored(cmds, {"x", "x1", "x2"})

StoredYs(cmds) == Stored(cmds, {"y", "y1", "y2"})

\* lo and hi are the minimum and maximum of vals, or the empty sentinel.
IsMinMax(lo, hi, vals) ==
  /\ \A v \in vals : Le(lo, v) /\ Le(v, hi)
  /\ IsFinite(lo) => lo \in vals
  /\ IsFinite(hi) => hi \in vals
  /\ vals = {} => lo = PosInf /\ hi = NegInf

\* C14: getCommandBounds() returns, per axis, the minimum and maximum over
\* every coordinate field of every command, endpoints and control points
\* alike, H contributing only an x, V only a y, Z nothing: every stored
\* coordinate lies within the bounds, each finite bound is attained by a
\* stored coordinate, and an empty command list gives minX = minY = +infinity,
\* maxX = maxY = -infinity.
C14_Bounds ==
  last.op = "getCommandBounds" =>
    /\ IsMinMax(last.out.minX, last.out.maxX, StoredXs(last.was))
    /\ IsMinMax(last.out.minY, last.out.maxY, StoredYs(last.was))
    /\ last.was = <<>> => last.out = Box(PosInf, PosInf, NegInf, NegInf)

\* A control point is the only coordinate on a bound.
C14_Witness ==
  /\ last.op = "getCommandBounds"
  /\ last.out.maxX \in Stored(last.was, {"x1", "x2"})
  /\ last.out.maxX \notin Stored(last.was, {"x"})
  /\ \E i \in 1..Len(last.was) : last.was[i].type = "H"

-----------------------------------------------------------------------------
(* SpecMerge: two paths of different sizes and contents, merged into a     *)
(* third.                                                                  *)

MergeInputs ==
  {<<[w |-> R(24), h |-> R(24), cmds |-> <<M(1, 2), L(5, 2)>>],
     [w |-> R(48), h |-> R(12), cmds |-> <<M(4, 8), H(19), Z>>]>>,
   <<[w |-> R(24), h |-> R(24), cmds |-> <<>>],
     [w |-> R(48), h |-> R(12), cmds |-> <<Q(1, 1, 2, 0)>>]>>,
   <<[w |-> R(12), h |-> R(12), cmds |-> <<M(0, 0), C(1, 1, 2, 0, 3, 1), S(4, 4, 5, 1)>>],
     [w |-> R(24), h |-> R(24), cmds |-> <<M(0, 0), T(3, 3), V(7)>>]>>}

InitMerge ==
  \E in \in MergeInputs :
    /\ heap = [i \in ArrayIds |-> IF i \in {1, 2} THEN in[i].cmds ELSE <<>>]
    /\ paths = [p \in PathIds |->
                  IF p \in {1, 2}
                  THEN [live |-> TRUE, width |-> in[p].w, height |-> in[p].h,
                        commands |-> p, origin |-> <<"new">>]
                  ELSE NoPath]
    /\ last = NoOp
    /\ font = NoFont

MergeSources == {<<>>, <<1>>, <<2>>, <<1, 2>>, <<2, 1>>, <<1, 1>>, <<2, 1, 2>>}

NextMerge ==
  \/ \E srcs \in MergeSources : MergeDefault(srcs, 3)
  \/ \E srcs \in MergeSources : MergeSquare(srcs, 3, R(48))
  \/ \E srcs \in MergeSources : Merge(srcs, 3, R(24), R(19))
  \/ \E p \in PathIds : BuilderL(p, R(6), R(3))
  \/ \E p \in PathIds : BuilderClose(p)
  \/ \E p \in PathIds : Translate(p, R(1), R(-2))

SpecMerge == InitMerge /\ [][NextMerge]_vars

-----------------------------------------------------------------------------
(* C15 *)

\* The command lists the paths of srcs held before the last operation, one
\* after the other.
RECURSIVE ConcatBefore(_)
ConcatBefore(srcs) ==
  IF srcs = <<>> THEN <<>>
  ELSE last.pre[paths[Head(srcs)].commands] \o ConcatBefore(Tail(srcs))

\* C15: IconPath.merge(paths, width, height) returns a new path of the given
\* size (24x24 by default, whatever the sizes of the input paths) whose
\* command list is the concatenation, in argument order, of the input
\* paths' command lists, kinds and coordinates unchanged; the command lists
\* of the input paths are unchanged by the call.
C15_Merge ==
  last.op = "merge" =>
    LET srcs == last.args[1]
    IN  /\ paths[last.p].width = last.args[2]
        /\ paths[last.p].height = last.args[3]
        /\ Now = ConcatBefore(srcs)
        /\ \A i \in 1..Len(srcs) :
             /\ cmdsOf(srcs[i]) = last.pre[paths[srcs[i]].commands]
             /\ paths[srcs[i]].commands # paths[last.p].commands
        /\ last.pre[paths[last.p].commands] = <<>>

\* Two different non-empty paths, neither 24x24 by both, merged at the
\* default size.
C15_Witness ==
  /\ last.op = "merge"
  /\ last.args[1] = <<2, 1>>
  /\ cmdsOf(1) # <<>> /\ cmdsOf(2) # <<>> /\ cmdsOf(1) # cmdsOf(2)
  /\ paths[last.p].width = R(24) /\ paths[last.p].height = R(24)
  /\ paths[1].width # R(24) /\ paths[2].width = R(24)
  /\ Now = cmdsOf(2) \o cmdsOf(1)

-----------------------------------------------------------------------------
(* Numbers with a rounded significand.  A JavaScript number is a binary    *)
(* floating-point value: the result of x + dx is the representable value   *)
(* nearest to the exact sum, ties to the even significand.  Precision is   *)
(* the number of significand bits the model gives a number (binary64 has   *)
(* 53); the exponent is not bounded.                                       *)

Precision == 5

RECURSIVE Pow2(_)
Pow2(k) == IF k = 0 THEN 1 ELSE 2 * Pow2(k - 1)

\* a / b rounded to the nearest integer, ties to even.
roundHalfEven(a, b) ==
  LET q == a \div b
      r == a % b
  IN  IF 2 * r > b \/ (2 * r = b /\ q % 2 = 1) THEN q + 1 ELSE q

\* The representable value nearest to a / b > 0, as (a / b scaled into
\* [2^(Precision-1), 2^Precision), rounded) * up / down.
RECURSIVE nearest(_, _, _, _)
nearest(a, b, up, down) ==
  IF a >= Pow2(Precision) * b THEN nearest(a, 2 * b, 2 * up, down)
  ELSE IF a < Pow2(Precision - 1) * b THEN nearest(2 * a, b, up, 2 * down)
  ELSE Frac(roundHalfEven(a, b) * up, down)

\* The number an arithmetic result is stored as.
fl(q) ==
  IF ~IsFinite(q) \/ q[1] = 0 THEN q
  ELSE LET m == nearest(Abs(q[1]), q[2], 1, 1) IN <<Sign(q[1]) * m[1], m[2]>>

\* translateRounded with dx and dy taken for each other.
translateRoundedSwapped(cmds, dx, dy) ==
  mapCoords(cmds, [p \in fnArgs(cmds) |->
    Pt(fl(Add(p[1], dy)), fl(Add(p[2], dx)))])

\* translate, each sum rounded to a representable number.
translateRounded(cmds, dx, dy) ==
  mapCoords(cmds, [p \in fnArgs(cmds) |->
    Pt(fl(Add(p[1], dx)), fl(Add(p[2], dy)))])

TranslateRounded(p, dx, dy) ==
  /\ replaceCommands(p, translateRounded(cmdsOf(p), dx, dy))
  /\ Log("translateRounded", p, <<dx, dy>>, <<>>)

-----------------------------------------------------------------------------
(* SpecFloat: one path under translate, with rounded sums.                 *)

FloatInputs ==
  {[w |-> R(24), h |-> R(24), cmds |-> <<>>],
   [w |-> R(24), h |-> R(24), cmds |-> <<M(1, 2), L(5, 2)>>],
   [w |-> R(24), h |-> R(24), cmds |-> <<M(3, 0), Q(7, 9, 1, 4), H(12), V(-6), Z>>],
   [w |-> R(24), h |-> R(24),
    cmds |-> <<M(0, 0), C(1, 1, 2, 0, 3, 1), S(4, 4, 5, 1), T(6, 2)>>]}

InitFloat ==
  \E in \in FloatInputs :
    /\ heap = [i \in ArrayIds |-> IF i = 1 THEN in.cmds ELSE <<>>]
    /\ paths = [p \in PathIds |->
                  IF p = 1
                  THEN [live |-> TRUE, width |-> in.w, height |-> in.h,
                        commands |-> 1, origin |-> <<"new">>]
                  ELSE NoPath]
    /\ last = NoOp
    /\ font = NoFont

Offsets ==
  {<<R(1), R(-2)>>, <<R(32), R(0)>>, <<R(-32), R(0)>>, <<R(64), R(64)>>,
   <<Frac(1, 2), R(3)>>, <<R(-128), R(128)>>}

NextFloat == \E d \in Offsets : TranslateRounded(1, d[1], d[2])

SpecFloat == InitFloat /\ [][NextFloat]_vars

-----------------------------------------------------------------------------
(* C16 *)

Shifted(b, dx, dy) ==
  Box(Add(b.minX, dx), Add(b.minY, dy), Add(b.maxX, dx), Add(b.maxY, dy))

\* The bounds after the last translate, translated back by the opposite
\* offsets.
BoundsAfterRoundTrip ==
  getCommandBounds(translateRounded(Now, Neg(last.args[1]), Neg(last.args[2])))

\* C16 as stated: for any path and any offsets dx, dy, translate(dx,dy)
\* followed by translate(-dx,-dy) restores the original bounds exactly, and
\* a translate moves the bounds by its offsets (so a sequence of translates
\* moves them by the sum of the offsets).
C16_RoundTrip ==
  last.op = "translateRounded" =>
    /\ BoundsAfterRoundTrip = WasBounds
    /\ NowBounds = Shifted(WasBounds, last.args[1], last.args[2])

\* No sum of the last translate was rounded.
SumsExact ==
  /\ \A x \in StoredXs(last.was) : fl(Add(x, last.args[1])) = Add(x, last.args[1])
  /\ \A y \in StoredYs(last.was) : fl(Add(y, last.args[2])) = Add(y, last.args[2])

\* C16, amended: when every sum x+dx, y+dy of translate(dx,dy) is exactly
\* representable, translate(-dx,-dy) after it restores every command's
\* coordinates, and with them the bounds, exactly, and the translate moves
\* the bounds by (dx, dy).
C16_RoundTripExact ==
  (last.op = "translateRounded" /\ SumsExact) =>
    /\ translateRounded(Now, Neg(last.args[1]), Neg(last.args[2])) = last.was
    /\ BoundsAfterRoundTrip = WasBounds
    /\ NowBounds = Shifted(WasBounds, last.args[1], last.args[2])

C16_Witness ==
  /\ last.op = "translateRounded" /\ SumsExact
  /\ last.n >= 2
  /\ \E i \in 1..Len(last.was) : last.was[i].type = "H"
  /\ Now # last.was

-----------------------------------------------------------------------------
(* Arcs.  The model's numbers are rationals, so it covers the calls of     *)
(* arcToCubic that take one of its two early returns; the coordinates of   *)
(* the general branch (cos, sin, sqrt, acos, tan) are outside it, and the  *)
(* action for a() is enabled for the degenerate arguments only.  The sweep *)
(* and the segments of the general branch are modelled by their angles     *)
(* further down.                                                           *)

\* The arguments with which arcToCubic returns before any trigonometry.
isDegenerateArc(x0, y0, rx, ry, x, y) ==
  (x0 = x /\ y0 = y) \/ rx = Zero \/ ry = Zero

\* arcToCubic with the zero-radius test put before the same-point test.
arcToCubicRadiiFirst(x0, y0, rx, ry, xAxisRotation, largeArcFlag, sweepFlag, x, y) ==
  IF rx = Zero \/ ry = Zero THEN <<CubicC(x0, y0, x, y, x, y)>> ELSE <<>>

\* arcToCubic, the degenerate cases.
arcToCubic(x0, y0, rx, ry, xAxisRotation, largeArcFlag, sweepFlag, x, y) ==
  CASE x0 = x /\ y0 = y -> <<>>
    [] ~(x0 = x /\ y0 = y) /\ (rx = Zero \/ ry = Zero) ->
         <<CubicC(x0, y0, x, y, x, y)>>

\* a(rx, ry, xAxisRotation, largeArcFlag, sweepFlag, x, y)
BuilderA(p, rx, ry, xAxisRotation, largeArcFlag, sweepFlag, x, y) ==
  LET start == getCurrentPoint(cmdsOf(p))
      beziers == arcToCubic(start.x, start.y, rx, ry, xAxisRotation,
                            largeArcFlag, sweepFlag, x, y)
  IN  /\ CanStep /\ Live(p)
      /\ isDegenerateArc(start.x, start.y, rx, ry, x, y)
      /\ heap' = [heap EXCEPT ![paths[p].commands] = @ \o beziers]
      /\ UNCHANGED paths
      /\ Log("a", p, <<rx, ry, xAxisRotation, largeArcFlag, sweepFlag, x, y>>,
                        beziers)

-----------------------------------------------------------------------------
(* SpecArc: one path, builders that move the current point, and            *)
(* degenerate arcs.                                                        *)

\* rx, ry, xAxisRotation, largeArcFlag, sweepFlag
ArcShapes ==
  {<<R(0), R(0), R(0), 0, 0>>, <<R(3), R(0), R(45), 1, 0>>,
   <<R(0), R(-2), R(0), 0, 1>>, <<R(3), R(3), R(0), 1, 1>>,
   <<R(-2), R(3), R(45), 0, 1>>, <<R(0), R(3), R(45), 1, 1>>}

ArcTargets == {Pt(R(0), R(0)), Pt(R(6), R(3)), Pt(R(5), R(6))}

ArcBuild ==
  \/ BuilderM(1, R(6), R(3))
  \/ BuilderL(1, R(5), R(6))
  \/ BuilderH(1, R(0))
  \/ BuilderV(1, R(0))
  \/ BuilderClose(1)

ArcDraw ==
  \E a \in ArcShapes, t \in ArcTargets :
    BuilderA(1, a[1], a[2], a[3], a[4], a[5], t.x, t.y)

NextArc == ArcBuild \/ ArcDraw \/ GetCurrentPoint(1)

SpecArc == InitQuery /\ [][NextArc]_vars

-----------------------------------------------------------------------------
(* C17 *)

ArcStart == Replay(last.was)

ArcTarget == Pt(last.args[6], last.args[7])

ArcSamePoint == ArcStart = ArcTarget

ArcZeroRadius == last.args[1] = Zero \/ last.args[2] = Zero

\* The points p, q, r lie on one line.
Collinear(p, q, r) ==
  Sub(Mul(Sub(q.x, p.x), Sub(r.y, p.y)), Mul(Sub(q.y, p.y), Sub(r.x, p.x))) = Zero

\* C17: a degenerate arc yields at most one segment.  With the start point
\* equal to the target arcToCubic returns an empty list whatever the radii,
\* rotation and flags, and a(...) appends nothing; otherwise, with rx = 0 or
\* ry = 0, it returns exactly one C whose first control point is the start
\* point and whose second control point and endpoint are the target (control
\* points collinear with the endpoints), a(...) appends exactly that C, and
\* getCurrentPoint() is then the target.
C17_DegenerateArc ==
  last.op = "a" =>
    /\ ArcSamePoint => last.out = <<>> /\ Now = last.was
    /\ (~ArcSamePoint /\ ArcZeroRadius) =>
         /\ Len(last.out) = 1
         /\ last.out[1].type = "C"
         /\ Pt(last.out[1].x1, last.out[1].y1) = ArcStart
         /\ Pt(last.out[1].x2, last.out[1].y2) = ArcTarget
         /\ Pt(last.out[1].x, last.out[1].y) = ArcTarget
         /\ Collinear(ArcStart, Pt(last.out[1].x1, last.out[1].y1), ArcTarget)
         /\ Collinear(ArcStart, Pt(last.out[1].x2, last.out[1].y2), ArcTarget)
         /\ Now = Append(last.was, last.out[1])
    /\ (ArcSamePoint \/ ArcZeroRadius) => getCurrentPoint(Now) = ArcTarget

\* An arc of zero radius drawn to the point the path is already at, after
\* the point was moved away from the origin.
C17_Witness ==
  /\ last.op = "a"
  /\ ArcSamePoint /\ ArcZeroRadius
  /\ ArcStart # Pt(Zero, Zero)
  /\ last.was # <<>>

-----------------------------------------------------------------------------
(* rect and corner.  A Corner is [kind |-> "sharp"] or                     *)
(* [kind |-> "rounded" or "chamfer", rx, ry]; a Rect config holds x, y,     *)
(* width, height, rx, ry and corners (tl, tr, br, bl), Null standing for an *)
(* absent field.                                                           *)

Sharp == [kind |-> "sharp"]

Rounded(rx, ry) == [kind |-> "rounded", rx |-> R(rx), ry |-> R(ry)]

Chamfer(rx, ry) == [kind |-> "chamfer", rx |-> R(rx), ry |-> R(ry)]

\* corner drawing every corner sharp.
cornerAlwaysSharp(side, x, y, c) == <<LineC(x, y)>>

\* corner(side, x, y, corner): the commands it appends; c is the Corner.
corner(side, x, y, c) ==
  CASE c.kind = "rounded" ->
         (CASE side = "tr" ->
                 <<LineC(Sub(x, c.rx), y), QuadC(x, y, x, Add(y, c.ry))>>
            [] side = "br" ->
                 <<LineC(x, Sub(y, c.ry)), QuadC(x, y, Sub(x, c.rx), y)>>
            [] side = "bl" ->
                 <<LineC(Add(x, c.rx), y), QuadC(x, y, x, Sub(y, c.ry))>>
            [] side = "tl" ->
                 <<LineC(x, Add(y, c.ry)), QuadC(x, y, Add(x, c.rx), y)>>)
    [] c.kind = "chamfer" ->
         (CASE side = "tr" ->
                 <<LineC(Sub(x, c.rx), y), LineC(x, Add(y, c.ry))>>
            [] side = "br" ->
                 <<LineC(x, Sub(y, c.ry)), LineC(Sub(x, c.rx), y)>>
            [] side = "bl" ->
                 <<LineC(Add(x, c.rx), y), LineC(x, Sub(y, c.ry))>>
            [] side = "tl" ->
                 <<LineC(x, Add(y, c.ry)), LineC(Add(x, c.rx), y)>>)
    [] c.kind = "sharp" -> <<LineC(x, y)>>

\* resolveCorner of rect: the explicit corner, else the global radii, else
\* sharp.
resolveCorner(c, rx, ry) ==
  IF c # Null THEN c
  ELSE IF rx = Zero /\ ry = Zero THEN Sharp
  ELSE [kind |-> "rounded", rx |-> rx, ry |-> ry]

\* rect(config): the commands it appends.
rect(config) ==
  LET x == config.x
      y == config.y
      width == config.width
      height == config.height
      rx0 == IF config.rx # Null THEN config.rx ELSE Zero
      ry0 == IF config.ry # Null THEN config.ry ELSE rx0
      rx == MathMin(rx0, Div(width, Two))
      ry == MathMin(ry0, Div(height, Two))
      tl == resolveCorner(config.corners.tl, rx, ry)
      tr == resolveCorner(config.corners.tr, rx, ry)
      br == resolveCorner(config.corners.br, rx, ry)
      bl == resolveCorner(config.corners.bl, rx, ry)
      start == IF tl.kind \in {"rounded", "chamfer"}
               THEN MoveC(Add(x, tl.rx), y) ELSE MoveC(x, y)
  IN  <<start>>
      \o corner("tr", Add(x, width), y, tr)
      \o corner("br", Add(x, width), Add(y, height), br)
      \o corner("bl", x, Add(y, height), bl)
      \o corner("tl", x, y, tl)
      \o <<CloseC>>

Rect(p, config) ==
  /\ CanStep /\ Live(p)
  /\ heap' = [heap EXCEPT ![paths[p].commands] = @ \o rect(config)]
  /\ UNCHANGED paths
  /\ Log("rect", p, <<config>>, <<>>)

-----------------------------------------------------------------------------
(* SpecRect: one path under rect, center and getCommandBounds.             *)

Corners(tl, tr, br, bl) == [tl |-> tl, tr |-> tr, br |-> br, bl |-> bl]

NoCorners == Corners(Null, Null, Null, Null)

RectConfig(x, y, width, height, rx, ry, corners) ==
  [x |-> R(x), y |-> R(y), width |-> R(width), height |-> R(height),
   rx |-> rx, ry |-> ry, corners |-> corners]

\* The README's file shape: 24 x 19 with a chamfered top-right corner.
FileConfig ==
  RectConfig(0, 0, 24, 19, Null, Null, Corners(Null, Chamfer(6, 6), Null, Null))

RectConfigs ==
  {FileConfig,
   RectConfig(0, 0, 24, 24, Null, Null, NoCorners),
   RectConfig(2, 3, 10, 8, R(2), Null, NoCorners),
   RectConfig(2, 3, 10, 8, Null, R(3), NoCorners),
   RectConfig(2, 3, 10, 8, R(20), R(1), NoCorners),
   RectConfig(2, 3, 10, 8, R(2), R(2), Corners(Sharp, Null, Chamfer(3, 1), Null)),
   RectConfig(-4, 1, 10, 8, Null, Null,
              Corners(Rounded(3, 3), Rounded(3, 3), Rounded(3, 3), Rounded(3, 3))),
   RectConfig(1, 1, 10, 8, Null, Null,
              Corners(Chamfer(2, 3), Chamfer(4, 1), Chamfer(1, 1), Chamfer(5, 4))),
   RectConfig(1, 1, 10, 8, Null, Null,
              Corners(Chamfer(10, 8), Rounded(10, 8), Sharp, Rounded(0, 0))),
   RectConfig(1, 1, 10, 8, Null, Null,
              Corners(Rounded(2, 8), Chamfer(10, 0), Rounded(0, 5), Chamfer(0, 0))),
   RectConfig(1, 1, 10, 8, Null, Null,
              Corners(Chamfer(12, 2), Null, Null, Rounded(2, 9)))}

RectInputs ==
  {[w |-> R(24), h |-> R(24), cmds |-> <<>>],
   [w |-> R(24), h |-> R(24), cmds |-> <<M(5, 5), L(7, 1)>>]}

InitRect == InitWith(RectInputs)

NextRect ==
  \/ \E config \in RectConfigs : Rect(1, config)
  \/ CenterDefault(1)
  \/ GetCommandBounds(1)

SpecRect == InitRect /\ [][NextRect]_vars

-----------------------------------------------------------------------------
(* C18 *)

\* The commands the last operation appended.
Appended == SubSeq(Now, Len(last.was) + 1, Len(Now))

\* Every radius in play is within the claim's range: an explicit corner's
\* 0 <= rx <= width and 0 <= ry <= height, the global radii not negative.
RadiiInRange(config) ==
  /\ \A side \in {"tl", "tr", "br", "bl"} :
       LET c == config.corners[side]
       IN  (c # Null /\ c.kind # "sharp") =>
             /\ Le(Zero, c.rx) /\ Le(c.rx, config.width)
             /\ Le(Zero, c.ry) /\ Le(c.ry, config.height)
  /\ config.rx # Null => Le(Zero, config.rx)
  /\ config.ry # Null => Le(Zero, config.ry)

\* C18: rect({x, y, width, height, corners}) appends exactly one closed
\* subpath (one M first, one Z last, only L and Q in between) for any mix of
\* sharp, rounded and chamfer corners with 0 <= rx <= width and
\* 0 <= ry <= height; the last point drawn before Z equals the starting Move
\* point, and on a previously empty path the bounds are exactly
\* (x, y)-(x+width, y+height).  The 24x19 rect at the origin with a chamfered
\* top-right corner (6,6), centred in the 24x24 box, has minX = 0, maxX = 24,
\* minY = 2.5, maxY = 21.5.
C18_Rect ==
  /\ (last.op = "rect" /\ RadiiInRange(last.args[1])) =>
       LET config == last.args[1]
           n == Len(Appended)
       IN  /\ SubSeq(Now, 1, Len(last.was)) = last.was
           /\ n >= 3
           /\ Appended[1].type = "M"
           /\ Appended[n].type = "Z"
           /\ \A i \in 2..(n - 1) : Appended[i].type \in {"L", "Q"}
           /\ Pt(Appended[n - 1].x, Appended[n - 1].y)
                = Pt(Appended[1].x, Appended[1].y)
           /\ last.was = <<>> =>
                NowBounds = Box(config.x, config.y, Add(config.x, config.width),
                                Add(config.y, config.height))
  /\ (last.op = "center" /\ last.args = <<R(0), R(0), R(24), R(24)>>
      /\ last.was = rect(FileConfig)) =>
       NowBounds = Box(R(0), Frac(5, 2), R(24), Frac(43, 2))

\* The file shape has been built by rect on an empty path and centred.
C18_Witness ==
  /\ last.op = "center" /\ last.args = <<R(0), R(0), R(24), R(24)>>
  /\ last.was = rect(FileConfig) /\ last.was = FileShape
  /\ NowBounds = Box(R(0), Frac(5, 2), R(24), Frac(43, 2))

-----------------------------------------------------------------------------
(* The string-based builders.  A string is the sequence of its characters.  *)

Digits == {"0", "1", "2", "3", "4", "5", "6", "7", "8", "9"}

digitValue(ch) ==
  CASE ch = "0" -> 0 [] ch = "1" -> 1 [] ch = "2" -> 2 [] ch = "3" -> 3
    [] ch = "4" -> 4 [] ch = "5" -> 5 [] ch = "6" -> 6 [] ch = "7" -> 7
    [] ch = "8" -> 8 [] ch = "9" -> 9

isWhiteSpace(ch) == ch \in {" ", "\t"}

RECURSIVE trimStart(_)
trimStart(str) ==
  IF str # <<>> /\ isWhiteSpace(Head(str)) THEN trimStart(Tail(str)) ELSE str

RECURSIVE trimEnd(_)
trimEnd(str) ==
  IF str # <<>> /\ isWhiteSpace(str[Len(str)])
  THEN trimEnd(SubSeq(str, 1, Len(str) - 1)) ELSE str

\* String.prototype.trim
trim(str) == trimEnd(trimStart(str))

\* str.replace(COMMA_REGEX, " ") with COMMA_REGEX = /,/g
replaceCommas(str) == [i \in 1..Len(str) |-> IF str[i] = "," THEN " " ELSE str[i]]

\* str.split(" "): a new part at every single space.
RECURSIVE splitAtSpace(_, _, _)
splitAtSpace(str, current, parts) ==
  IF str = <<>> THEN Append(parts, current)
  ELSE IF Head(str) = " " THEN splitAtSpace(Tail(str), <<>>, Append(parts, current))
  ELSE splitAtSpace(Tail(str), Append(current, Head(str)), parts)

\* str.split(SPACE_REGEX) with SPACE_REGEX = /\s+/: a new part at every run
\* of white space.
RECURSIVE splitAtSpaces(_, _, _, _)
splitAtSpaces(str, current, parts, inRun) ==
  IF str = <<>> THEN Append(parts, current)
  ELSE IF isWhiteSpace(Head(str))
       THEN IF inRun THEN splitAtSpaces(Tail(str), current, parts, TRUE)
            ELSE splitAtSpaces(Tail(str), <<>>, Append(parts, current), TRUE)
       ELSE splitAtSpaces(Tail(str), Append(current, Head(str)), parts, FALSE)

\* The longest prefix of str made of digits.
RECURSIVE digitPrefix(_)
digitPrefix(str) ==
  IF str # <<>> /\ Head(str) \in Digits THEN <<Head(str)>> \o digitPrefix(Tail(str))
  ELSE <<>>

RECURSIVE digitsValue(_)
digitsValue(ds) ==
  IF ds = <<>> THEN 0
  ELSE 10 * digitsValue(SubSeq(ds, 1, Len(ds) - 1)) + digitValue(ds[Len(ds)])

RECURSIVE Pow10(_)
Pow10(k) == IF k = 0 THEN 1 ELSE 10 * Pow10(k - 1)

\* parts[i], or undefined (Null) past the end: the destructuring
\* const [a, b, ...] = parts.
element(parts, i) == IF i <= Len(parts) THEN parts[i] ELSE Null

\* parseFloat: leading white space skipped, then the longest prefix that is
\* a decimal literal (sign, digits, fraction); NaN when there is none.
\* Whatever follows the literal is ignored.  undefined gives NaN.
parseFloat(str) ==
  LET s0 == trimStart(str)
      signed == s0 # <<>> /\ Head(s0) \in {"-", "+"}
      s1 == IF signed THEN Tail(s0) ELSE s0
      int == digitPrefix(s1)
      rest == SubSeq(s1, Len(int) + 1, Len(s1))
      frac == IF rest # <<>> /\ Head(rest) = "." THEN digitPrefix(Tail(rest)) ELSE <<>>
      value == Add(R(digitsValue(int)), Frac(digitsValue(frac), Pow10(Len(frac))))
  IN  IF int = <<>> /\ frac = <<>> THEN NaN
      ELSE IF signed /\ Head(s0) = "-" THEN Neg(value) ELSE value

\* parseInt(str, 10): leading white space skipped, then sign and digits; NaN
\* when there is no digit.
parseInt(str) ==
  LET s0 == trimStart(str)
      signed == s0 # <<>> /\ Head(s0) \in {"-", "+"}
      s1 == IF signed THEN Tail(s0) ELSE s0
      int == digitPrefix(s1)
  IN  IF int = <<>> THEN NaN
      ELSE IF signed /\ Head(s0) = "-" THEN R(-digitsValue(int)) ELSE R(digitsValue(int))

\* throw new Error(`${text}"${input}"`)
Error(text, input) == [threw |-> TRUE, message |-> <<text, input>>]

Parsed(values) == [threw |-> FALSE, values |-> values]

\* The first lines of ms and ls: two parts of split(" "), parseFloat, isNaN.
twoCoords(coords) ==
  LET parts == splitAtSpace(trim(coords), <<>>, <<>>)
      x == parseFloat(element(parts, 1))
      y == parseFloat(element(parts, 2))
  IN  IF IsNaN(x) \/ IsNaN(y) THEN Error(<<"Invalid coordinates string: ">>, coords)
      ELSE Parsed(<<x, y>>)

\* The first lines of qs, cs, ts and ss: parts.length !== count, parseFloat
\* of each part, some(isNaN).
countedCoords(coords, count, kind) ==
  LET parts == splitAtSpaces(replaceCommas(trim(coords)), <<>>, <<>>, FALSE)
      values == [i \in 1..count |-> parseFloat(element(parts, i))]
  IN  IF Len(parts) # count
      THEN Error(<<"Invalid coordinates string for ", kind, ": ">>, coords)
      ELSE IF \E i \in 1..count : IsNaN(values[i])
      THEN Error(<<"Invalid numeric values in ", kind, " string: ">>, coords)
      ELSE Parsed(values)

\* The first lines of as.
arcParams(params) ==
  LET parts == splitAtSpaces(replaceCommas(trim(params)), <<>>, <<>>, FALSE)
      rx == parseFloat(element(parts, 1))
      ry == parseFloat(element(parts, 2))
      xAxisRotation == parseFloat(element(parts, 3))
      largeArcFlag == parseInt(element(parts, 4))
      sweepFlag == parseInt(element(parts, 5))
      x == parseFloat(element(parts, 6))
      y == parseFloat(element(parts, 7))
  IN  IF Len(parts) # 7 THEN Error(<<"Invalid parameter string for A: ">>, params)
      ELSE IF \/ \E n \in {rx, ry, xAxisRotation, x, y} : IsNaN(n)
              \/ largeArcFlag \notin {R(0), R(1)}
              \/ sweepFlag \notin {R(0), R(1)}
      THEN Error(<<"Invalid numeric values in A string: ">>, params)
      ELSE Parsed(<<rx, ry, xAxisRotation, largeArcFlag, sweepFlag, x, y>>)

\* Throw with a command pushed before the error is raised.
ThrowAfterPush(p, op, input, error) ==
  /\ CanStep /\ Live(p)
  /\ heap' = [heap EXCEPT ![paths[p].commands] = Append(@, CloseC)]
  /\ UNCHANGED paths
  /\ Log(op, p, <<input>>, error)

\* A call that throws: nothing after the throw runs.
Throw(p, op, input, error) ==
  /\ CanStep /\ Live(p)
  /\ UNCHANGED <<heap, paths>>
  /\ Log(op, p, <<input>>, error)

\* A string builder: throw, or hand the parsed numbers to the builder.
StringBuilder(p, op, input, r, cmds) ==
  IF r.threw THEN Throw(p, op, input, r)
  ELSE /\ CanStep /\ Live(p)
       /\ heap' = [heap EXCEPT ![paths[p].commands] = @ \o cmds]
       /\ UNCHANGED paths
       /\ Log(op, p, <<input>>, r)

Ms(p, coords) ==
  LET r == twoCoords(coords)
  IN  StringBuilder(p, "ms", coords, r,
                    IF r.threw THEN <<>> ELSE <<MoveC(r.values[1], r.values[2])>>)

Ls(p, coords) ==
  LET r == twoCoords(coords)
  IN  StringBuilder(p, "ls", coords, r,
                    IF r.threw THEN <<>> ELSE <<LineC(r.values[1], r.values[2])>>)

Qs(p, coords) ==
  LET r == countedCoords(coords, 4, "Q")
  IN  StringBuilder(p, "qs", coords, r,
                    IF r.threw THEN <<>>
                    ELSE <<QuadC(r.values[1], r.values[2], r.values[3], r.values[4])>>)

Cs(p, coords) ==
  LET r == countedCoords(coords, 6, "C")
  IN  StringBuilder(p, "cs", coords, r,
                    IF r.threw THEN <<>>
                    ELSE <<CubicC(r.values[1], r.values[2], r.values[3], r.values[4],
                                  r.values[5], r.values[6])>>)

Ts(p, coords) ==
  LET r == countedCoords(coords, 2, "T")
  IN  StringBuilder(p, "ts", coords, r,
                    IF r.threw THEN <<>> ELSE <<SmoothQuadC(r.values[1], r.values[2])>>)

Ss(p, coords) ==
  LET r == countedCoords(coords, 4, "S")
  IN  StringBuilder(p, "ss", coords, r,
                    IF r.threw THEN <<>>
                    ELSE <<SmoothCubicC(r.values[1], r.values[2], r.values[3],
                                        r.values[4])>>)

\* as(params): enabled when it throws or the arc is degenerate.
As(p, params) ==
  LET r == arcParams(params)
      start == getCurrentPoint(cmdsOf(p))
  IN  /\ IF r.threw THEN TRUE
         ELSE isDegenerateArc(start.x, start.y, r.values[1], r.values[2],
                              r.values[6], r.values[7])
      /\ StringBuilder(p, "as", params, r,
                       IF r.threw THEN <<>>
                       ELSE arcToCubic(start.x, start.y, r.values[1], r.values[2],
                                       r.values[3], r.values[4], r.values[5],
                                       r.values[6], r.values[7]))

-----------------------------------------------------------------------------
(* SpecString: one path under the string-based builders.                   *)

Inputs ==
  { \* "1 2"
   <<"1", " ", "2">>,
   \* "1 2 3"
   <<"1", " ", "2", " ", "3">>,
   \* "1"
   <<"1">>,
   \* ""
   <<>>,
   \* "1,2"
   <<"1", ",", "2">>,
   \* "1  2"
   <<"1", " ", " ", "2">>,
   \* " 1 2 "
   <<" ", "1", " ", "2", " ">>,
   \* "1 2px"
   <<"1", " ", "2", "p", "x">>,
   \* "x 2"
   <<"x", " ", "2">>,
   \* "-1.5 .5"
   <<"-", "1", ".", "5", " ", ".", "5">>,
   \* "1 2 3 4"
   <<"1", " ", "2", " ", "3", " ", "4">>,
   \* "1,2, 3,4"
   <<"1", ",", "2", ",", " ", "3", ",", "4">>,
   \* "1 2 3 4 5 6"
   <<"1", " ", "2", " ", "3", " ", "4", " ", "5", " ", "6">>,
   \* "1 2 3 4 5 x"
   <<"1", " ", "2", " ", "3", " ", "4", " ", "5", " ", "x">>,
   \* "0 0 0 1 0 5 6"
   <<"0", " ", "0", " ", "0", " ", "1", " ", "0", " ", "5", " ", "6">>,
   \* "3 0 45 0 1 5 6"
   <<"3", " ", "0", " ", "4", "5", " ", "0", " ", "1", " ", "5", " ", "6">>,
   \* "0 0 0 2 0 5 6"
   <<"0", " ", "0", " ", "0", " ", "2", " ", "0", " ", "5", " ", "6">>,
   \* "0 0 0 1.5 0 5 6"
   <<"0", " ", "0", " ", "0", " ", "1", ".", "5", " ", "0", " ", "5", " ", "6">>}

StringInputs ==
  {[w |-> R(24), h |-> R(24), cmds |-> <<>>],
   [w |-> R(24), h |-> R(24), cmds |-> <<M(5, 6), L(7, 1)>>]}

InitString == InitWith(StringInputs)

NextString ==
  \E str \in Inputs :
    \/ Ms(1, str)
    \/ Ls(1, str)
    \/ Qs(1, str)
    \/ Cs(1, str)
    \/ Ts(1, str)
    \/ Ss(1, str)
    \/ As(1, str)

SpecString == InitString /\ [][NextString]_vars

-----------------------------------------------------------------------------
(* C19 *)

StringBuilders == {"ms", "ls", "qs", "cs", "ts", "ss", "as"}

Failed == last.op \in StringBuilders /\ last.out.threw

\* C19: whenever a string-based builder (ms, ls, qs, cs, ts, ss, as) fails
\* on its input, it throws before touching the path: the command list after
\* the failed call is exactly the command list before it, after any sequence
\* of earlier operations.
C19_FailedCallLeavesPath ==
  Failed => /\ Now = last.was
            /\ heap = last.pre

\* A call failed on a path an earlier string builder had appended to.
C19_Witness ==
  /\ Failed
  /\ last.n = MaxOps
  /\ Len(last.was) \in {1, 3}

-----------------------------------------------------------------------------
(* C20 *)

IsSeparator(ch) == isWhiteSpace(ch) \/ ch = ","

\* The tokens of a string: its maximal runs of characters that are neither
\* white space nor commas.
RECURSIVE TokensFrom(_, _)
TokensFrom(str, current) ==
  IF str = <<>> THEN (IF current = <<>> THEN <<>> ELSE <<current>>)
  ELSE IF IsSeparator(Head(str))
       THEN (IF current = <<>> THEN <<>> ELSE <<current>>) \o TokensFrom(Tail(str), <<>>)
       ELSE TokensFrom(Tail(str), Append(current, Head(str)))

Tokens(str) == TokensFrom(str, <<>>)

AllDigits(str) == \A i \in 1..Len(str) : str[i] \in Digits

\* The token is a decimal number: optional sign, digits, optional fraction,
\* and nothing else.
IsNumber(tok) ==
  LET body == IF tok # <<>> /\ tok[1] \in {"-", "+"} THEN Tail(tok) ELSE tok
      dots == {i \in 1..Len(body) : body[i] = "."}
  IN  \/ body # <<>> /\ AllDigits(body)
      \/ \E i \in dots :
           /\ AllDigits(SubSeq(body, 1, i - 1))
           /\ AllDigits(SubSeq(body, i + 1, Len(body)))
           /\ Len(body) > 1

TokenCount(op) ==
  CASE op \in {"ms", "ls", "ts"} -> 2
    [] op \in {"qs", "ss"} -> 4
    [] op = "cs" -> 6
    [] op = "as" -> 7

\* The input has the token count of the builder, every token a number, the
\* flags of as restricted to 0 or 1.
WellFormed(op, str) ==
  LET toks == Tokens(str)
  IN  /\ Len(toks) = TokenCount(op)
      /\ \A i \in 1..Len(toks) :
           IF op = "as" /\ i \in {4, 5} THEN toks[i] \in {<<"0">>, <<"1">>}
           ELSE IsNumber(toks[i])

\* C20: every string-based builder rejects input with the wrong token count
\* or a non-numeric token: ms, ls and ts accept exactly 2 numeric tokens, qs
\* and ss exactly 4, cs exactly 6, as exactly 7 (flags 0 or 1); any other
\* token count, or any token that is not a number, makes the call throw an
\* error naming the input string instead of appending a command.
C20_RejectsMalformed ==
  (last.op \in StringBuilders /\ ~WellFormed(last.op, last.args[1])) =>
    /\ last.out.threw
    /\ last.out.message[2] = last.args[1]
    /\ Now = last.was

\* What qs, cs, ts, ss and as do reject: a part count other than theirs.
C20_CountedBuildersCheckCount ==
  (last.op \in StringBuilders \ {"ms", "ls"}
   /\ Len(Tokens(last.args[1])) # TokenCount(last.op)) =>
    /\ last.out.threw
    /\ last.out.message[2] = last.args[1]
    /\ Now = last.was

-----------------------------------------------------------------------------
(* IconFont: the cached buffer and the three exports.                      *)

\* new IconFont({icons, ascender, descender}) with the defaults 800 / -200.
NewFont(icons) ==
  [icons |-> icons, ascender |-> R(800), descender |-> R(-200),
   buffer |-> NoBuffer, builds |-> 0, served |-> {}]

\* buildGlyphs: one outline per icon, projected with the font's metrics.
buildGlyphs(f) ==
  [i \in 1..Len(f.icons) |->
     toOpenTypePath(cmdsOf(f.icons[i]), paths[f.icons[i]].width,
                    paths[f.icons[i]].height, f.ascender, f.descender)]

\* toOpenTypeFont().toArrayBuffer(): a new buffer each time it runs.
toArrayBuffer(f) == [id |-> f.builds + 1, glyphs |-> buildGlyphs(f)]

Built(f) == [f EXCEPT !.buffer = toArrayBuffer(f), !.builds = f.builds + 1]

\* getBuffer without the test of _buffer.
getBufferRebuild(f) == Built(f)

\* getBuffer: builds only while _buffer is undefined.
getBuffer(f) == IF f.buffer = NoBuffer THEN Built(f) ELSE f

Export(op, format) ==
  /\ CanStep
  /\ font' = [getBuffer(font) EXCEPT !.served = @ \cup {getBuffer(font).buffer.id}]
  /\ UNCHANGED <<heap, paths>>
  /\ last' = Record(op, 1, <<>>, [format |-> format, of |-> getBuffer(font).buffer])

GetBuffer == Export("getBuffer", "buffer")

ToTTF == Export("toTTF", "ttf")

ToWoff == Export("toWoff", "woff")

ToWoff2 == Export("toWoff2", "woff2")

\* The icon's path is still the caller's: it can be edited between exports.
FontEdit ==
  \/ BuilderL(1, R(6), R(3))
  \/ BuilderClose(1)
  \/ Translate(1, R(1), R(-2))

InitFont ==
  \E in \in QueryInputs :
    /\ heap = [i \in ArrayIds |-> IF i = 1 THEN in.cmds ELSE <<>>]
    /\ paths = [p \in PathIds |->
                  IF p = 1
                  THEN [live |-> TRUE, width |-> in.w, height |-> in.h,
                        commands |-> 1, origin |-> <<"new">>]
                  ELSE NoPath]
    /\ last = NoOp
    /\ font = NewFont(<<1>>)

NextFont == GetBuffer \/ ToTTF \/ ToWoff \/ ToWoff2 \/ FontEdit

SpecFont == InitFont /\ [][NextFont]_vars

FontExports == {"getBuffer", "toTTF", "toWoff", "toWoff2"}

\* C21: across any sequence of getBuffer, toTTF, toWoff and toWoff2 calls on
\* one IconFont the font is built and serialized at most once, by the first
\* such call; every export is derived from that one buffer, which stays the
\* value of _buffer even when the icon's path is edited afterwards.
C21_BuiltOnce ==
  /\ font.builds <= 1
  /\ Cardinality(font.served) <= 1
  /\ (font.buffer = NoBuffer) = (font.builds = 0)
  /\ last.op \in FontExports =>
       /\ font.builds = 1
       /\ last.out.of = font.buffer
       /\ font.served = {font.buffer.id}

\* Three exports with an edit of the icon before the last one: the last
\* export still converts the buffer of the first.
C21_Witness ==
  /\ last.op = "toWoff2" /\ last.n = MaxOps
  /\ font.builds = 1
  /\ last.out.of.glyphs # buildGlyphs(font)

-----------------------------------------------------------------------------
(* C22 *)

\* The current point (cx, cy) getOpenTypeCommands holds after cmds.
trackedPoint(cmds) ==
  LET st == canonLoop([out |-> <<>>, cx |-> Zero, cy |-> Zero,
                       qx |-> Null, qy |-> Null, kx |-> Null, ky |-> Null], cmds)
  IN  Pt(st.cx, st.cy)

Prefix(cmds, k) == SubSeq(cmds, 1, k)

\* No curve directly before position i: T and S have nothing to reflect.
NoCurveBefore(cmds, i) == i = 1 \/ cmds[i - 1].type \notin {"Q", "T", "C", "S"}

\* C22: at every position of any command list the current point tracked by
\* getOpenTypeCommands equals getCurrentPoint() of the prefix ending there,
\* also directly after a Z; so the L emitted for an H or V takes its other
\* coordinate from that point, and a T or S with no preceding curve gets
\* that point as its control point.
C22_TrackedPoint ==
  last.op = "getOpenTypeCommands" =>
    \A k \in 0..Len(last.was) :
      /\ trackedPoint(Prefix(last.was, k)) = getCurrentPoint(Prefix(last.was, k))
      /\ k > 0 =>
           LET c == last.was[k]
               o == last.out[k]
               before == getCurrentPoint(Prefix(last.was, k - 1))
           IN  /\ c.type = "H" => o.y = before.y
               /\ c.type = "V" => o.x = before.x
               /\ c.type = "T" /\ NoCurveBefore(last.was, k) =>
                    o.x1 = before.x /\ o.y1 = before.y
               /\ c.type = "S" /\ NoCurveBefore(last.was, k) =>
                    o.x1 = before.x /\ o.y1 = before.y

-----------------------------------------------------------------------------
(* C23 *)

\* The current point before position i, read off the canonical list: the
\* endpoint of the nearest earlier command that has one, else (0,0).
RECURSIVE PenBefore(_, _)
PenBefore(out, i) ==
  IF i <= 1 THEN Pt(Zero, Zero)
  ELSE IF out[i - 1].type # "Z" THEN Pt(out[i - 1].x, out[i - 1].y)
  ELSE PenBefore(out, i - 1)

Mirror(pen, ctrl) == Pt(Sub(Mul(Two, pen.x), ctrl.x), Sub(Mul(Two, pen.y), ctrl.y))

-----------------------------------------------------------------------------
(* SpecReverse: reverseSubpath and getSignedAreaFontSpace on the subpath a  *)
(* path holds.                                                             *)

ReverseSubpath(p, sub) == Query(p, "reverseSubpath", <<sub>>, reverseSubpath(sub))

GetSignedAreaFontSpace(p, sub) ==
  Query(p, "getSignedAreaFontSpace", <<sub>>,
        getSignedAreaFontSpace(sub, paths[p].height))

MaxSegs == 3

Segments == {L(8, 0), L(3, 7), Q(5, 9, 8, 8), C(1, 4, 2, 6, 0, 8)}

\* M v0, up to MaxSegs segments, optionally Z; and two subpaths with H, V.
Subpaths ==
  LET runs == UNION {[1..k -> Segments] : k \in 0..MaxSegs}
      open == {<<M(1, 2)>> \o r : r \in runs}
  IN  open \cup {s \o <<Z>> : s \in open}
      \cup {<<M(1, 2), H(8), V(9), Z>>, <<M(1, 2), V(9), L(7, 7), H(3)>>}

\* The path's height, against which the area flips y.
ReverseHeights == {R(24), R(12)}

\* One path holding one subpath as its command list.
InitReverse ==
  \E sub \in Subpaths, h \in ReverseHeights :
    /\ heap = [i \in ArrayIds |-> IF i = 1 THEN sub ELSE <<>>]
    /\ paths = [p \in PathIds |->
                  IF p = 1
                  THEN [live |-> TRUE, width |-> R(24), height |-> h,
                        commands |-> 1, origin |-> <<"new">>]
                  ELSE NoPath]
    /\ last = NoOp
    /\ font = NoFont

\* The path's subpath, and the reversed one, handed to the two methods.
NextReverse ==
  \/ ReverseSubpath(1, cmdsOf(1))
  \/ ReverseSubpath(1, reverseSubpath(cmdsOf(1)))
  \/ GetSignedAreaFontSpace(1, cmdsOf(1))
  \/ GetSignedAreaFontSpace(1, reverseSubpath(cmdsOf(1)))

SpecReverse == InitReverse /\ [][NextReverse]_vars

-----------------------------------------------------------------------------
(* C24 *)

HasZ(sub) == \E i \in 1..Len(sub) : sub[i].type = "Z"

\* M v0, seg1 .. segn of L, Q, C, optionally closed by one Z.
IsCanonicalSubpath(sub) ==
  /\ Len(sub) >= 1 /\ sub[1].type = "M"
  /\ \A i \in 2..Len(sub) :
       \/ sub[i].type \in {"L", "Q", "C"}
       \/ sub[i].type = "Z" /\ i = Len(sub)

SegCount(sub) == IF HasZ(sub) THEN Len(sub) - 2 ELSE Len(sub) - 1

\* v0 .. vn as a sequence: Vertex(sub, i + 1) is vi.
Vertex(sub, k) == Pt(sub[k].x, sub[k].y)

Vertices(sub) == [k \in 1..(SegCount(sub) + 1) |-> Vertex(sub, k)]

\* Segment seg aimed at the point v, a C with its control points swapped.
Retargeted(seg, v) ==
  CASE seg.type = "L" -> LineC(v.x, v.y)
    [] seg.type = "Q" -> QuadC(seg.x1, seg.y1, v.x, v.y)
    [] seg.type = "C" -> CubicC(seg.x2, seg.y2, seg.x1, seg.y1, v.x, v.y)

\* C24: for a canonical subpath M v0, seg1 -> v1, .., segn -> vn, optionally
\* ending in Z, reverseSubpath returns M vn followed by the segments in
\* reverse order, segment i aimed at v(i-1), an L staying an L, a Q keeping
\* its control point, a C swapping its two; the result ends in Z exactly
\* when the input contained Z.  So the vertex sequence is reversed, the
\* command count is unchanged, the signed area is negated, and reversing
\* twice gives back the input.
C24_Reverse ==
  last.op = "reverseSubpath" /\ IsCanonicalSubpath(last.args[1]) =>
    LET sub == last.args[1]
        out == last.out
        n == SegCount(sub)
        h == paths[last.p].height
    IN  /\ Len(out) = Len(sub)
        /\ out[1] = MoveC(Vertex(sub, n + 1).x, Vertex(sub, n + 1).y)
        /\ \A i \in 1..n :
             out[1 + (n - i + 1)] = Retargeted(sub[i + 1], Vertex(sub, i))
        /\ HasZ(out) = HasZ(sub)
        /\ HasZ(out) => out[Len(out)] = CloseC
        /\ IsCanonicalSubpath(out)
        /\ Vertices(out) = [k \in 1..(n + 1) |-> Vertex(sub, n + 2 - k)]
        /\ getSignedAreaFontSpace(out, h) = Neg(getSignedAreaFontSpace(sub, h))
        /\ reverseSubpath(out) = sub

\* A closed subpath of an L, a Q and a C, of non-zero area, reversed.
C24_Witness ==
  /\ last.op = "reverseSubpath" /\ IsCanonicalSubpath(last.args[1])
  /\ HasZ(last.args[1])
  /\ {last.args[1][i].type : i \in 1..Len(last.args[1])} = {"M", "L", "Q", "C", "Z"}
  /\ getSignedAreaFontSpace(last.args[1], paths[last.p].height) # Zero
  /\ last.out # last.args[1]

-----------------------------------------------------------------------------
(* rotate, and SpecEdit: one path under every builder and every transform.  *)

\* Math.cos and Math.sin of a whole number of quarter turns, taken exactly
\* (in doubles the cosine of a quarter turn is 6.1e-17, not 0).
cosQuarter(turns) ==
  CASE turns % 4 = 0 -> R(1) [] turns % 4 = 2 -> R(-1) [] OTHER -> Zero

sinQuarter(turns) ==
  CASE turns % 4 = 1 -> R(1) [] turns % 4 = 3 -> R(-1) [] OTHER -> Zero

\* The callback of rotate: about the pivot (cx, cy).
rotatePoint(x, y, turns, cx, cy) ==
  LET cos == cosQuarter(turns)
      sin == sinQuarter(turns)
      dx == Sub(x, cx)
      dy == Sub(y, cy)
      rx == Sub(Mul(dx, cos), Mul(dy, sin))
      ry == Add(Mul(dx, sin), Mul(dy, cos))
  IN  Pt(Add(rx, cx), Add(ry, cy))

\* rotate(angle, cx, cy), angle = turns quarter turns.
rotate(cmds, turns, cx, cy) ==
  mapCoords(cmds, [p \in fnArgs(cmds) |-> rotatePoint(p[1], p[2], turns, cx, cy)])

Rotate(p, turns, cx, cy) ==
  /\ replaceCommands(p, rotate(cmdsOf(p), turns, cx, cy))
  /\ Log("rotate", p, <<turns, cx, cy>>, <<>>)

\* rotate(angle): the pivot defaults to (0, 0).
RotateDefault(p, turns) == Rotate(p, turns, Zero, Zero)

EditInputs ==
  {[w |-> R(24), h |-> R(24), cmds |-> <<>>],
   [w |-> R(24), h |-> R(24), cmds |-> <<M(1, 2), H(8), V(9), Z>>],
   [w |-> R(24), h |-> R(24), cmds |-> <<M(1, 2), Q(9, -3, 5, 6), T(0, 10), L(3, 3)>>],
   [w |-> R(24), h |-> R(12),
    cmds |-> <<M(0, 0), C(1, 1, 2, 0, 3, 1), S(4, 4, 5, 1), Z, L(2, 7)>>],
   [w |-> R(24), h |-> R(24), cmds |-> <<M(5, 5), L(7, 1), Z, T(3, 3)>>],
   [w |-> R(24), h |-> R(24), cmds |-> <<H(4), V(-2)>>]}

InitEdit ==
  \E in \in EditInputs :
    /\ heap = [i \in ArrayIds |-> IF i = 1 THEN in.cmds ELSE <<>>]
    /\ paths = [p \in PathIds |->
                  IF p = 1
                  THEN [live |-> TRUE, width |-> in.w, height |-> in.h,
                        commands |-> 1, origin |-> <<"new">>]
                  ELSE NoPath]
    /\ last = NoOp
    /\ font = NoFont

EditTransform ==
  \/ Translate(1, R(1), R(-2))
  \/ Scale(1, Two, Frac(1, 2), Zero, R(4))
  \/ ScaleDefault(1, R(3))
  \/ \E turns \in {1, 2} : RotateDefault(1, turns)
  \/ Rotate(1, 3, R(12), R(12))
  \/ FlipX(1, paths[1].width)
  \/ FlipY(1, paths[1].height)
  \/ CenterDefault(1)
  \/ Fit(1, TRUE)
  \/ AlignToFont(1, R(800), R(-200), "descender")

NextEdit == QueryBuild \/ EditTransform

SpecEdit == InitEdit /\ [][NextEdit]_vars

-----------------------------------------------------------------------------
(* C25 *)

BeginsWithMove(cmds) == Len(cmds) >= 1 /\ cmds[1].type = "M"

\* The point-carrying fields of a canonical command, as (x-field, y-field).
PointFields(cmd) ==
  {f \in {<<"x", "y">>, <<"x1", "y1">>, <<"x2", "y2">>} : f[1] \in DOMAIN cmd}

\* Whether img is cmds with every point replaced by its image under the
\* quarter-turn rotation.
RotatedImage(img, cmds, turns, cx, cy) ==
  /\ Len(img) = Len(cmds)
  /\ \A i \in 1..Len(cmds) :
       /\ img[i].type = cmds[i].type
       /\ \A f \in PointFields(cmds[i]) :
            Pt(img[i][f[1]], img[i][f[2]]) =
              rotatePoint(cmds[i][f[1]], cmds[i][f[2]], turns, cx, cy)

\* C25: rotate(angle, cx, cy) is a rotation of the drawn outline about the
\* pivot: for any path beginning with a Move, paths with H and V included,
\* the canonical commands of the rotated path are the canonical commands of
\* the original with every point rotated, and getCurrentPoint() of the
\* rotated path is the rotated original current point.
C25_Rotation ==
  last.op = "rotate" /\ BeginsWithMove(last.was) =>
    LET turns == last.args[1]
        cx == last.args[2]
        cy == last.args[3]
        before == getCurrentPoint(last.was)
    IN  /\ RotatedImage(getOpenTypeCommands(cmdsOf(last.p)),
                        getOpenTypeCommands(last.was), turns, cx, cy)
        /\ getCurrentPoint(cmdsOf(last.p)) = rotatePoint(before.x, before.y, turns, cx, cy)

NoHV(cmds) == \A i \in 1..Len(cmds) : cmds[i].type \notin {"H", "V"}

\* C25 for paths that hold no H and no V.
C25_RotationWithoutHV ==
  last.op = "rotate" /\ BeginsWithMove(last.was) /\ NoHV(last.was) =>
    LET turns == last.args[1]
        cx == last.args[2]
        cy == last.args[3]
        before == getCurrentPoint(last.was)
    IN  /\ RotatedImage(getOpenTypeCommands(cmdsOf(last.p)),
                        getOpenTypeCommands(last.was), turns, cx, cy)
        /\ getCurrentPoint(cmdsOf(last.p)) = rotatePoint(before.x, before.y, turns, cx, cy)

-----------------------------------------------------------------------------
(* C26 *)

Appends == {"m", "l", "h", "v", "q", "t", "c", "s", "close"}

Rewrites ==
  {"translate", "scale", "rotate", "flipX", "flipY", "center", "fit", "alignToFont"}

\* The command an append is to add for its arguments.
AppendedBy(op, args) ==
  CASE op = "m" -> [type |-> "M", x |-> args[1], y |-> args[2]]
    [] op = "l" -> [type |-> "L", x |-> args[1], y |-> args[2]]
    [] op = "h" -> [type |-> "H", x |-> args[1]]
    [] op = "v" -> [type |-> "V", y |-> args[1]]
    [] op = "q" -> [type |-> "Q", x1 |-> args[1], y1 |-> args[2],
                    x |-> args[3], y |-> args[4]]
    [] op = "t" -> [type |-> "T", x |-> args[1], y |-> args[2]]
    [] op = "c" -> [type |-> "C", x1 |-> args[1], y1 |-> args[2], x2 |-> args[3],
                    y2 |-> args[4], x |-> args[5], y |-> args[6]]
    [] op = "s" -> [type |-> "S", x2 |-> args[1], y2 |-> args[2],
                    x |-> args[3], y |-> args[4]]
    [] op = "close" -> [type |-> "Z"]

\* C26: each append (m, l, h, v, q, t, c, s, close) adds one command of its
\* kind at the end and leaves the earlier ones untouched; each transform
\* (translate, scale, rotate, flipX, flipY, center, fit, alignToFont)
\* rewrites coordinates only: the list keeps its length and order, every
\* command its kind and its fields, so an H still carries only x, a V only
\* y and a Z nothing.  Hence after any sequence of them the list holds one
\* command per append, in append order and of the appended kind.
C26_OnePerAppend ==
  /\ last.op \in Appends =>
       Now = Append(last.was, AppendedBy(last.op, last.args))
  /\ last.op \in Rewrites =>
       /\ Len(Now) = Len(last.was)
       /\ \A i \in 1..Len(last.was) :
            /\ Now[i].type = last.was[i].type
            /\ DOMAIN Now[i] = DOMAIN last.was[i]

\* An h appended, then the list transformed twice, last by a rotation that
\* moved it: the H, the V and the Z are still in place.
C26_Witness ==
  /\ last.op = "rotate" /\ last.n = MaxOps
  /\ Now # last.was
  /\ \E i, j, k \in 1..Len(last.was) :
       /\ Now[i].type = "H" /\ DOMAIN Now[i] = {"type", "x"}
       /\ Now[j].type = "V" /\ DOMAIN Now[j] = {"type", "y"}
       /\ Now[k] = CloseC

-----------------------------------------------------------------------------
(* SpecFrame: one path, grown command by command, under every query and    *)
(* export.                                                                 *)

\* splitSubpaths(commands); commands defaults to this._commands.
SplitSubpaths(p, commands) ==
  Query(p, "splitSubpaths", <<commands>>, splitSubpaths(commands))

SplitSubpathsDefault(p) == SplitSubpaths(p, cmdsOf(p))

\* `${n}`: the text of a number, kept as the number it denotes.
numberText(n) == <<"number", n>>

\* The text toPathData gives one command: its letter and its numbers.
pathDataOf(cmd) ==
  CASE cmd.type \in {"M", "L", "T"} -> <<cmd.type, numberText(cmd.x), numberText(cmd.y)>>
    [] cmd.type = "H" -> <<"H", numberText(cmd.x)>>
    [] cmd.type = "V" -> <<"V", numberText(cmd.y)>>
    [] cmd.type = "Q" ->
         <<"Q", numberText(cmd.x1), numberText(cmd.y1), numberText(cmd.x), numberText(cmd.y)>>
    [] cmd.type = "C" ->
         <<"C", numberText(cmd.x1), numberText(cmd.y1), numberText(cmd.x2),
           numberText(cmd.y2), numberText(cmd.x), numberText(cmd.y)>>
    [] cmd.type = "S" ->
         <<"S", numberText(cmd.x2), numberText(cmd.y2), numberText(cmd.x), numberText(cmd.y)>>
    [] cmd.type = "Z" -> <<"Z">>

\* toPathData: the texts joined by single spaces, as the list of the words.
RECURSIVE toPathData(_)
toPathData(cmds) ==
  IF cmds = <<>> THEN <<>> ELSE pathDataOf(Head(cmds)) \o toPathData(Tail(cmds))

ToPathData(p) == Query(p, "toPathData", <<>>, toPathData(cmdsOf(p)))

FrameInputs ==
  {[w |-> R(24), h |-> R(24), cmds |-> <<>>],
   [w |-> R(24), h |-> R(24), cmds |-> <<M(1, 2), Q(9, -3, 5, 6), T(0, 10)>>],
   [w |-> R(24), h |-> R(24),
    cmds |-> <<M(5, 5), L(7, 1), Z, L(2, 2), M(0, 0), H(4)>>],
   [w |-> R(24), h |-> R(12),
    cmds |-> <<M(0, 0), L(8, 0), L(8, 8), Z, M(2, 2), L(2, 6), L(6, 6), Z>>],
   [w |-> R(24), h |-> R(24), cmds |-> <<H(4), V(-2), Z, Z>>]}

InitFrame ==
  \E in \in FrameInputs :
    /\ heap = [i \in ArrayIds |-> IF i = 1 THEN in.cmds ELSE <<>>]
    /\ paths = [p \in PathIds |->
                  IF p = 1
                  THEN [live |-> TRUE, width |-> in.w, height |-> in.h,
                        commands |-> 1, origin |-> <<"new">>]
                  ELSE NoPath]
    /\ last = NoOp
    /\ font = NoFont

FrameBuild ==
  \/ BuilderM(1, R(2), R(3))
  \/ BuilderL(1, R(6), R(3))
  \/ BuilderV(1, R(7))
  \/ BuilderS(1, R(4), R(4), R(5), R(1))
  \/ BuilderClose(1)
  \/ Translate(1, R(1), R(-2))

\* The subpaths of the path's canonical commands.
OwnSubpaths(p) ==
  LET parts == splitSubpaths(getOpenTypeCommands(cmdsOf(p)))
  IN  {parts[k] : k \in 1..Len(parts)}

FrameAsk ==
  \/ GetCommandBounds(1)
  \/ GetCurrentPoint(1)
  \/ GetOpenTypeCommands(1)
  \/ SplitSubpathsDefault(1)
  \/ SplitSubpaths(1, getOpenTypeCommands(cmdsOf(1)))
  \/ \E sub \in OwnSubpaths(1) : GetSignedAreaFontSpace(1, sub)
  \/ \E outerShouldBeCW \in BOOLEAN : GetNormalizedWindingForFont(1, outerShouldBeCW)
  \/ ToOpenTypePath(1, R(800), R(-200))
  \/ ToPathData(1)
  \/ \E p \in PathIds : Clone(1, p)

NextFrame == FrameBuild \/ FrameAsk

SpecFrame == InitFrame /\ [][NextFrame]_vars

-----------------------------------------------------------------------------
(* C27 *)

RECURSIVE Flatten(_)
Flatten(parts) == IF parts = <<>> THEN <<>> ELSE Head(parts) \o Flatten(Tail(parts))

-----------------------------------------------------------------------------
(* The general branch of arcToCubic, from its step 4 on.  Angles are kept  *)
(* exactly, in degrees (Math.PI is 180), and a point of the ellipse is     *)
(* kept as the angle at which the code evaluates it; the unit vectors v1   *)
(* and v2 of step 4 are given by their directions.  The centre             *)
(* parameterization before step 4 and the rounding of cos, sin, acos and   *)
(* tan are not modelled.                                                   *)

\* unitAngle(ux, uy, vx, vy) for unit vectors of directions u and v:
\* sign * acos(dot), sign = -1 when the cross product is negative.
unitAngle(u, v) ==
  LET diff == (v - u) % 360
  IN  IF diff <= 180 THEN diff ELSE diff - 360

\* deltaTheta after the two sweepFlag corrections.
deltaThetaOf(v1, v2, sweepFlag) ==
  LET raw == unitAngle(v1, v2)
  IN  IF sweepFlag = 0 /\ raw > 0 THEN raw - 360
      ELSE IF sweepFlag = 1 /\ raw < 0 THEN raw + 360
      ELSE raw

\* The segment count with a half turn allowed per segment.
segmentsOfHalfTurn(deltaTheta) ==
  LET ceil == -((-Abs(deltaTheta)) \div 180)
  IN  IF ceil > 1 THEN ceil ELSE 1

\* Math.max(Math.ceil(Math.abs(deltaTheta) / (Math.PI / 2)), 1)
segmentsOf(deltaTheta) ==
  LET ceil == -((-Abs(deltaTheta)) \div 90)
  IN  IF ceil > 1 THEN ceil ELSE 1

\* The loop: segment i runs from t1 = theta1 to t2 = t1 + dTheta, its
\* endpoint p2 is the point of the ellipse at t2, and theta1 becomes t2.
RECURSIVE arcLoop(_, _, _, _)
arcLoop(theta1, dTheta, i, segments) ==
  IF i >= segments THEN <<>>
  ELSE LET t1 == theta1
           t2 == Add(t1, dTheta)
       IN  <<[type |-> "C", t1 |-> t1, t2 |-> t2]>> \o arcLoop(t2, dTheta, i + 1, segments)

arcToCubicGeneral(v1, v2, sweepFlag) ==
  LET theta1 == unitAngle(0, v1)
      deltaTheta == deltaThetaOf(v1, v2, sweepFlag)
      segments == segmentsOf(deltaTheta)
      dTheta == Frac(deltaTheta, segments)
  IN  arcLoop(R(theta1), dTheta, 0, segments)

ArcToCubic(p, v1, v2, sweepFlag) ==
  Query(p, "arcToCubic", <<v1, v2, sweepFlag>>, arcToCubicGeneral(v1, v2, sweepFlag))

\* The directions of v1 and v2: quarter turns, sixths, and three others.
Directions == {-150, -90, -60, 0, 30, 90, 120, 180, 1, 91, -179}

\* Start and target are distinct: v1 and v2 differ.
NextSweep ==
  \E v1, v2 \in Directions, sweepFlag \in {0, 1} :
    v1 # v2 /\ ArcToCubic(1, v1, v2, sweepFlag)

SpecSweep == InitQuery /\ [][NextSweep]_vars

-----------------------------------------------------------------------------
(* C28 *)

\* The sweep the emitted segments cover, start of the first to end of the
\* last, in degrees.
SweepOf(result) == Sub(result[Len(result)].t2, result[1].t1)

Magnitude(a) == IF Lt(a, Zero) THEN Neg(a) ELSE a

\* Whether the angles a and b (degrees) are the same direction.
SameDirection(a, b) ==
  LET turns == Div(Sub(a, b), R(360)) IN turns[2] = 1

-----------------------------------------------------------------------------
(* C29 *)

FrameOps ==
  {"getCommandBounds", "getCurrentPoint", "getOpenTypeCommands", "splitSubpaths",
   "getSignedAreaFontSpace", "getNormalizedWindingForFont", "toOpenTypePath",
   "toPathData", "clone"}

\* C29: getCommandBounds, getCurrentPoint, getOpenTypeCommands,
\* splitSubpaths, getSignedAreaFontSpace, getNormalizedWindingForFont,
\* toOpenTypePath, toPathData and clone leave the command list, the width
\* and the height of every existing path as they were, wherever they are
\* interleaved with builders and transforms; what a later operation or
\* export returns depends on these alone, so it is not changed either.
C29_Frame ==
  [][last'.op \in FrameOps =>
       \A p \in PathIds :
         Live(p) => /\ paths'[p] = paths[p]
                    /\ heap'[paths'[p].commands] = heap[paths[p].commands]]_vars

\* The winding normalizer returned a list that differs from the canonical
\* one, after two earlier operations, and the path still holds its list; a
\* clone made before holds its own.
C29_Witness ==
  /\ last.op = "getNormalizedWindingForFont" /\ last.n = MaxOps
  /\ last.out # getOpenTypeCommands(Now)
  /\ Now = last.was /\ Now # getOpenTypeCommands(Now)
  /\ \E p \in PathIds \ {1} : Live(p) /\ paths[p].commands # paths[1].commands

-----------------------------------------------------------------------------
(* C30 *)

AxisAligned == {"translate", "scale", "flipX", "flipY"}

\* The coordinate map of an axis-aligned transform, from its arguments.
AxisMap(op, args, x, y) ==
  CASE op = "translate" -> Pt(Add(x, args[1]), Add(y, args[2]))
    [] op = "scale" ->
         Pt(Add(args[3], Mul(args[1], Sub(x, args[3]))),
            Add(args[4], Mul(args[2], Sub(y, args[4]))))
    [] op = "flipX" -> Pt(Sub(args[1], x), y)
    [] op = "flipY" -> Pt(x, Sub(args[1], y))

\* Whether img is cmds with every point replaced by its image.
AxisImage(img, cmds, op, args) ==
  /\ Len(img) = Len(cmds)
  /\ \A i \in 1..Len(cmds) :
       /\ img[i].type = cmds[i].type
       /\ \A f \in PointFields(cmds[i]) :
            Pt(img[i][f[1]], img[i][f[2]]) =
              AxisMap(op, args, cmds[i][f[1]], cmds[i][f[2]])

\* C30: for any path that begins with a Move and any of translate, scale,
\* flipX and flipY, the canonical commands of the transformed path are the
\* canonical commands of the original with the transform's coordinate map
\* applied to every endpoint and control point, and getCurrentPoint() of
\* the transformed path is the image of the original current point.
C30_Commutes ==
  last.op \in AxisAligned /\ BeginsWithMove(last.was) =>
    LET before == getCurrentPoint(last.was)
    IN  /\ AxisImage(getOpenTypeCommands(Now), getOpenTypeCommands(last.was),
                     last.op, last.args)
        /\ getCurrentPoint(Now) = AxisMap(last.op, last.args, before.x, before.y)

\* A scale about a pivot off the origin, of a path with H, V, a reflected T
\* or S and a Z, that moved the path.
C30_Witness ==
  /\ last.op = "scale" /\ BeginsWithMove(last.was)
  /\ last.args[3] # last.args[4]
  /\ Now # last.was
  /\ \E i, j \in 1..Len(last.was) :
       /\ last.was[i].type \in {"H", "V"}
       /\ last.was[j].type \in {"T", "S"}
  /\ \E k \in 1..Len(last.was) : last.was[k].type = "Z"

\* C30 without the leading Move.
C30_AnyPath ==
  last.op \in AxisAligned =>
    AxisImage(getOpenTypeCommands(Now), getOpenTypeCommands(last.was),
              last.op, last.args)

====
